---- MODULE Spec2Model ----
(***************************************************************************)
(* FloodSentry AI hub (src/src/python/hub_mqtt_flood_sentry.py): the MQTT  *)
(* message callbacks, the artifact (model/scaler) loader and the decision  *)
(* loop of main(), as a state machine.                                     *)
(*                                                                         *)
(* Two threads act on the module globals: the paho network thread runs the *)
(* on_message_* callbacks one message at a time, the main thread runs the  *)
(* decision loop.  Every read or write of a global shared by both is a     *)
(* step of its own, so the interleavings of the two threads are the ones   *)
(* the interpreter allows.  Times are whole seconds; probabilities are     *)
(* integers in units of 1e-7.                                              *)
(***************************************************************************)
EXTENDS Integers, Sequences, FiniteSets, TLC

(***************************************************************************)
(* Program constants                                                       *)
(***************************************************************************)
MAX_MQTT_CONNECT_ATTEMPTS == 3
MQTT_CONNECT_RETRY_DELAY_SECONDS == 10
PREDICTION_THRESHOLD == 280000
SENSOR_DATA_TIMEOUT_SECONDS == 35
MODEL_CHECK_INTERVAL_SECONDS == 60
RAIO_BUFFER_PADRAO_METERS == 200
RAIO_BUFFER_AGUA_MEDIO_METERS == 300
RAIO_BUFFER_AGUA_ALTO_METERS == 500
STATUS_LOG_INTERVAL_SECONDS == 300
predicao_intervalo_segundos == 15

(***************************************************************************)
(* Bounds of the model                                                     *)
(***************************************************************************)
MaxMsgs == 2
MaxCycles == 2
MaxFileOps == 2
MaxCyclesArtefatos == 3
MaxCyclesRepeticao == 3
MaxCyclesPersistencia == 3
MaxCyclesRecuperacao == 9

\* Seconds from one reading of the clock at the top of the loop to the next:
\* the sleep of 15 s plus whatever the cycle itself took.
TickDurations == {predicao_intervalo_segundos, SENSOR_DATA_TIMEOUT_SECONDS,
                  STATUS_LOG_INTERVAL_SECONDS + 5}

(***************************************************************************)
(* Python values                                                           *)
(***************************************************************************)
\* Optional[float]: None is the empty sequence, a float t is <<t>>.
None == <<>>
Some(t) == <<t>>

NoFields == [k \in {} |-> ""]
\* A decoded JSON value: its Python type and, for a dict, its items.
PyNone == [type |-> "NoneType", fields |-> NoFields]
JsonList == [type |-> "list", fields |-> NoFields]
EmptyDict == [type |-> "dict", fields |-> NoFields]
\* A payload that msg.payload.decode / json.loads rejects.
Invalid == [type |-> "invalid", fields |-> NoFields]
Dict(f) == [type |-> "dict", fields |-> f]

\* bool(v): None and {} are false, a non-empty dict and the list [1] are true.
Truthy(v) ==
    CASE v.type = "dict" -> DOMAIN v.fields # {}
      [] v.type = "list" -> TRUE
      [] OTHER -> FALSE

\* v has a .get method (only a dict has).
HasGet(v) == v.type = "dict"

\* v.get(key, default) of a dict v.
Get(v, key, default) ==
    IF key \in DOMAIN v.fields THEN v.fields[key] ELSE default

\* str.upper() on the status strings of the model.
Upper(s) ==
    CASE s = "active" -> "ACTIVE"
      [] s = "cleared" -> "CLEARED"
      [] OTHER -> s

WaterPayloads ==
    { Invalid, JsonList, EmptyDict,
      Dict([level_category |-> "Baixo"]),
      Dict([level_category |-> "Medio"]),
      Dict([level_category |-> "Alto"]),
      Dict([battery |-> "ok"]) }

RainPayloads ==
    { Invalid, JsonList, EmptyDict,
      Dict([intensity_category |-> "Nenhuma"]),
      Dict([intensity_category |-> "Leve"]),
      Dict([intensity_category |-> "Moderada"]),
      Dict([intensity_category |-> "Pesada"]),
      Dict([intensity_category |-> "Torrencial"]),
      Dict([battery |-> "ok"]) }

CriticalPayloads ==
    { Invalid, JsonList,
      Dict([status |-> "ACTIVE", distance_cm |-> "12"]),
      Dict([status |-> "active"]),
      Dict([status |-> "CLEARED"]),
      Dict([status |-> "TESTING"]) }

(***************************************************************************)
(* Artifact files and the points of interest                               *)
(***************************************************************************)
\* A file on disk: present or not, its modification time, the version of
\* its content and whether joblib.load can deserialize it.
NoFile == [existe |-> FALSE, mtime |-> 0, ver |-> 0, ok |-> FALSE]
File(t, v, good) == [existe |-> TRUE, mtime |-> t, ver |-> v, ok |-> good]

\* A loaded artifact: the version of the content and the load that made it.
NoArtefato == [ver |-> 0, carga |-> 0]

POIs == 1..4

Layers == {"edificacoes", "estradas", "rios"}

VARIABLES
    now,                            \* time.time()
    model_file, scaler_file,        \* the two artifact files on disk
    file_ops,                       \* writes to the files so far
    latest_water_level_data, timestamp_last_water_data,
    latest_rainfall_data, timestamp_last_rain_data,
    esp32_critical_alert_is_active, esp32_critical_alert_details,
    ml_model_instance, scaler_instance,
    timestamp_artefatos_carregados, last_artefatos_check_time,
    n_cargas,                       \* loads of the pair so far
    edificios_gdf_metric, estradas_gdf_metric, rios_gdf_metric,
    msgs_recebidas_counter, alertas_enviados_counter,
    hpc, hmsg,                      \* the callback in progress and its data
    pc, attempt,                    \* main(): position, connection attempt
    ciclos_counter, current_loop_time, last_status_log_time, start_time,
    sistema_em_alto_risco_final,
    status_sensor_agua_obj, categoria_agua_display, dados_agua_atuais,
    status_sensor_chuva_obj, categoria_chuva_display, dados_chuva_atuais,
    critico_lido,                   \* what line 550 read in this cycle
    mostrar_analise_detalhada_pois, mensagem_pois_simplificada,
    analise,                        \* what lines 584-672 did in this cycle:
                                    \* the rows and the calls of line 654
    comando,                        \* what publicar_comando_alerta did
    ciclos_anteriores,              \* what the finished iterations saw and did
    LeiturasSensores, AnalisesPOIs, AlertasEventosSistema, StatusHub

fileVars == <<model_file, scaler_file, file_ops>>
waterVars == <<latest_water_level_data, timestamp_last_water_data>>
rainVars == <<latest_rainfall_data, timestamp_last_rain_data>>
critVars == <<esp32_critical_alert_is_active, esp32_critical_alert_details>>
artVars == <<ml_model_instance, scaler_instance, timestamp_artefatos_carregados,
             last_artefatos_check_time, n_cargas>>
geoVars == <<edificios_gdf_metric, estradas_gdf_metric, rios_gdf_metric>>
handlerVars == <<hpc, hmsg, msgs_recebidas_counter>>
loopVars == <<attempt, ciclos_counter, current_loop_time, last_status_log_time,
              start_time>>
aguaLocals == <<status_sensor_agua_obj, categoria_agua_display, dados_agua_atuais>>
chuvaLocals == <<status_sensor_chuva_obj, categoria_chuva_display, dados_chuva_atuais>>
decLocals == <<sistema_em_alto_risco_final, critico_lido,
               mostrar_analise_detalhada_pois, mensagem_pois_simplificada>>
outVars == <<analise, comando, alertas_enviados_counter, ciclos_anteriores>>
dbVars == <<LeiturasSensores, AnalisesPOIs, AlertasEventosSistema, StatusHub>>

vars == <<now, fileVars, waterVars, rainVars, critVars, artVars, geoVars,
          handlerVars, pc, loopVars, aguaLocals, chuvaLocals, decLocals,
          outVars, dbVars>>


(***************************************************************************)
(* Persistence (gerenciador_db.py)                                         *)
(***************************************************************************)
\* What one use of the database can come to: criar_conexao returns None
\* (sqlite3.Error caught), or the INSERT raises sqlite3.Error (caught in the
\* insert function, which returns None), or the row is committed.
DbOutcomes == {"ok", "sem_conexao", "erro_insert"}

\* A table of the database: the number of its rows and the last row
\* inserted (<<>> while it is empty).
TabelaVazia == [n |-> 0, ultima |-> <<>>]
Inserir(tabela, linha) == [n |-> tabela.n + 1, ultima |-> <<linha>>]

\* inserir_leitura_sensor on a connection: the table after the call.
inserir_leitura_sensor(tabela, db, tipo_sensor, categoria_valor, dados_brutos) ==
    IF db = "ok"
    THEN Inserir(tabela, [tipo_sensor |-> tipo_sensor,
                          categoria_valor |-> categoria_valor,
                          dados_brutos |-> dados_brutos])
    ELSE tabela

\* inserir_alerta_evento_sistema on a connection: the table after the call.
inserir_alerta_evento_sistema(tabela, db, tipo_evento, origem_evento, nivel, detalhes) ==
    IF db = "ok"
    THEN Inserir(tabela, [tipo_evento |-> tipo_evento,
                          origem_evento |-> origem_evento,
                          nivel_ou_status_evento |-> nivel,
                          detalhes |-> detalhes])
    ELSE tabela

(***************************************************************************)
(* Artifact loader                                                         *)
(***************************************************************************)
\* Faulty loader: a scaler that fails to deserialize leaves the model just
\* loaded in place beside the scaler of the load before.
carregar_artefatos_parcial ==
    IF ~model_file.existe \/ ~scaler_file.existe
    THEN [ret |-> FALSE, ml |-> NoArtefato, sc |-> NoArtefato, ts |-> None,
          cargas |-> n_cargas]
    ELSE IF \/ ml_model_instance = NoArtefato
            \/ scaler_instance = NoArtefato
            \/ timestamp_artefatos_carregados = None
            \/ model_file.mtime > timestamp_artefatos_carregados[1]
         THEN IF model_file.ok /\ scaler_file.ok
              THEN [ret |-> TRUE,
                    ml |-> [ver |-> model_file.ver, carga |-> n_cargas + 1],
                    sc |-> [ver |-> scaler_file.ver, carga |-> n_cargas + 1],
                    ts |-> Some(model_file.mtime),
                    cargas |-> n_cargas + 1]
              ELSE IF model_file.ok
              THEN [ret |-> FALSE,
                    ml |-> [ver |-> model_file.ver, carga |-> n_cargas + 1],
                    sc |-> scaler_instance,
                    ts |-> timestamp_artefatos_carregados,
                    cargas |-> n_cargas + 1]
              ELSE [ret |-> FALSE, ml |-> NoArtefato, sc |-> NoArtefato,
                    ts |-> None, cargas |-> n_cargas]
         ELSE [ret |-> TRUE, ml |-> ml_model_instance, sc |-> scaler_instance,
               ts |-> timestamp_artefatos_carregados, cargas |-> n_cargas]

\* Faulty loader: a failed load leaves the pair of the load before in place.
carregar_artefatos_mantem_anterior ==
    IF ~model_file.existe \/ ~scaler_file.existe
    THEN [ret |-> FALSE, ml |-> ml_model_instance, sc |-> scaler_instance,
          ts |-> timestamp_artefatos_carregados, cargas |-> n_cargas]
    ELSE IF \/ ml_model_instance = NoArtefato
            \/ scaler_instance = NoArtefato
            \/ timestamp_artefatos_carregados = None
            \/ model_file.mtime > timestamp_artefatos_carregados[1]
         THEN IF model_file.ok /\ scaler_file.ok
              THEN [ret |-> TRUE,
                    ml |-> [ver |-> model_file.ver, carga |-> n_cargas + 1],
                    sc |-> [ver |-> scaler_file.ver, carga |-> n_cargas + 1],
                    ts |-> Some(model_file.mtime),
                    cargas |-> n_cargas + 1]
              ELSE [ret |-> FALSE, ml |-> ml_model_instance,
                    sc |-> scaler_instance,
                    ts |-> timestamp_artefatos_carregados, cargas |-> n_cargas]
         ELSE [ret |-> TRUE, ml |-> ml_model_instance, sc |-> scaler_instance,
               ts |-> timestamp_artefatos_carregados, cargas |-> n_cargas]

\* Faulty loader: a model file as old as the loaded pair is loaded again.
carregar_artefatos_nao_mais_antigo ==
    IF ~model_file.existe \/ ~scaler_file.existe
    THEN [ret |-> FALSE, ml |-> NoArtefato, sc |-> NoArtefato, ts |-> None,
          cargas |-> n_cargas]
    ELSE IF \/ ml_model_instance = NoArtefato
            \/ scaler_instance = NoArtefato
            \/ timestamp_artefatos_carregados = None
            \/ model_file.mtime >= timestamp_artefatos_carregados[1]
         THEN IF model_file.ok /\ scaler_file.ok
              THEN [ret |-> TRUE,
                    ml |-> [ver |-> model_file.ver, carga |-> n_cargas + 1],
                    sc |-> [ver |-> scaler_file.ver, carga |-> n_cargas + 1],
                    ts |-> Some(model_file.mtime),
                    cargas |-> n_cargas + 1]
              ELSE [ret |-> FALSE, ml |-> NoArtefato, sc |-> NoArtefato,
                    ts |-> None, cargas |-> n_cargas]
         ELSE [ret |-> TRUE, ml |-> ml_model_instance, sc |-> scaler_instance,
               ts |-> timestamp_artefatos_carregados, cargas |-> n_cargas]

\* carregar_ou_recarregar_artefatos(MODEL_PATH, SCALER_PATH): the value it
\* returns and the three globals (and the count of loads) it leaves.
carregar_ou_recarregar_artefatos ==
    IF ~model_file.existe \/ ~scaler_file.existe
    THEN [ret |-> FALSE, ml |-> NoArtefato, sc |-> NoArtefato, ts |-> None,
          cargas |-> n_cargas]
    ELSE LET ts_modelo_disco == model_file.mtime IN
         IF \/ ml_model_instance = NoArtefato
            \/ scaler_instance = NoArtefato
            \/ timestamp_artefatos_carregados = None
            \/ ts_modelo_disco > timestamp_artefatos_carregados[1]
         THEN IF model_file.ok /\ scaler_file.ok
              THEN [ret |-> TRUE,
                    ml |-> [ver |-> model_file.ver, carga |-> n_cargas + 1],
                    sc |-> [ver |-> scaler_file.ver, carga |-> n_cargas + 1],
                    ts |-> Some(ts_modelo_disco),
                    cargas |-> n_cargas + 1]
              ELSE \* joblib.load raised: the except branch
                   [ret |-> FALSE, ml |-> NoArtefato, sc |-> NoArtefato,
                    ts |-> None, cargas |-> n_cargas]
         ELSE [ret |-> TRUE, ml |-> ml_model_instance, sc |-> scaler_instance,
               ts |-> timestamp_artefatos_carregados, cargas |-> n_cargas]

(***************************************************************************)
(* Initial state: the module globals as the module body leaves them, the   *)
(* files as the trainer left them before the hub starts.                   *)
(***************************************************************************)
Init ==
    /\ now = 1
    /\ model_file \in {File(0, 1, TRUE), NoFile}
    /\ scaler_file \in {File(0, 1, TRUE), File(0, 1, FALSE)}
    /\ file_ops = 0
    /\ latest_water_level_data = PyNone
    /\ timestamp_last_water_data = None
    /\ latest_rainfall_data = PyNone
    /\ timestamp_last_rain_data = None
    /\ esp32_critical_alert_is_active = FALSE
    /\ esp32_critical_alert_details = PyNone
    /\ ml_model_instance = NoArtefato
    /\ scaler_instance = NoArtefato
    /\ timestamp_artefatos_carregados = None
    /\ last_artefatos_check_time = 0
    /\ n_cargas = 0
    /\ edificios_gdf_metric = FALSE
    /\ estradas_gdf_metric = FALSE
    /\ rios_gdf_metric = FALSE
    /\ msgs_recebidas_counter = 0
    /\ alertas_enviados_counter = 0
    /\ hpc = "idle"
    /\ hmsg = PyNone
    /\ pc = "inicio"
    /\ attempt = 0
    /\ ciclos_counter = 0
    /\ current_loop_time = 0
    /\ last_status_log_time = 0
    /\ start_time = 0
    /\ sistema_em_alto_risco_final = FALSE
    /\ status_sensor_agua_obj = "N/A"
    /\ categoria_agua_display = "N/A"
    /\ dados_agua_atuais = FALSE
    /\ status_sensor_chuva_obj = "N/A"
    /\ categoria_chuva_display = "N/A"
    /\ dados_chuva_atuais = FALSE
    /\ critico_lido = FALSE
    /\ mostrar_analise_detalhada_pois = FALSE
    /\ mensagem_pois_simplificada = ""
    /\ analise = [feita |-> FALSE, linhas |-> <<>>, insercoes_tentadas |-> 0]
    /\ comando = [chamado |-> FALSE, risco |-> FALSE, conectado |-> FALSE,
                  enviado |-> FALSE]
    /\ ciclos_anteriores = {}
    /\ LeiturasSensores = TabelaVazia
    /\ AnalisesPOIs = <<>>
    /\ AlertasEventosSistema = TabelaVazia
    /\ StatusHub = TabelaVazia

(***************************************************************************)
(* The artifact files change under the running hub (treinar_modelo.py      *)
(* saves the model, then the scaler; a file can be removed).               *)
(***************************************************************************)
EscreverModelo ==
    /\ \E good \in BOOLEAN :
          model_file' = File(now, model_file.ver + 1, good)
    /\ file_ops' = file_ops + 1
    /\ UNCHANGED <<now, scaler_file, waterVars, rainVars, critVars, artVars,
                   geoVars, handlerVars, pc, loopVars, aguaLocals, chuvaLocals,
                   decLocals, outVars, dbVars>>

EscreverScaler ==
    /\ \E good \in BOOLEAN :
          scaler_file' = File(now, scaler_file.ver + 1, good)
    /\ file_ops' = file_ops + 1
    /\ UNCHANGED <<now, model_file, waterVars, rainVars, critVars, artVars,
                   geoVars, handlerVars, pc, loopVars, aguaLocals, chuvaLocals,
                   decLocals, outVars, dbVars>>

RemoverModelo ==
    /\ model_file.existe
    /\ model_file' = NoFile
    /\ file_ops' = file_ops + 1
    /\ UNCHANGED <<now, scaler_file, waterVars, rainVars, critVars, artVars,
                   geoVars, handlerVars, pc, loopVars, aguaLocals, chuvaLocals,
                   decLocals, outVars, dbVars>>

\* The GeoPackage on disk: missing, or the set of its layers that hold valid
\* geometries.
GeoPackages ==
    { [existe |-> TRUE, camadas |-> Layers],
      [existe |-> TRUE, camadas |-> Layers \ {"estradas"}],
      [existe |-> FALSE, camadas |-> {}] }

\* carregar_camada_geografica: TRUE for a loaded GeoDataFrame, FALSE for None.
carregar_camada_geografica(g, layer) ==
    IF ~g.existe THEN FALSE ELSE layer \in g.camadas

(***************************************************************************)
(* main(): startup                                                         *)
(***************************************************************************)
\* main() has returned: after a failed initial load, after the last failed
\* connection attempt, or through the except/finally of lines 695-701.
Fim == {"fim_artefatos", "fim_mqtt", "fim_erro", "fim_interrupcao"}

\* Faulty startup: the value the initial load returns is not looked at.
CarregamentoInicial_ignora_falha(Pacotes) ==
    /\ pc = "inicio"
    /\ LET r == carregar_ou_recarregar_artefatos IN
       /\ ml_model_instance' = r.ml
       /\ scaler_instance' = r.sc
       /\ timestamp_artefatos_carregados' = r.ts
       /\ n_cargas' = r.cargas
    /\ last_artefatos_check_time' = now
    /\ \E g \in Pacotes :
          /\ edificios_gdf_metric' = carregar_camada_geografica(g, "edificacoes")
          /\ estradas_gdf_metric' = carregar_camada_geografica(g, "estradas")
          /\ rios_gdf_metric' = carregar_camada_geografica(g, "rios")
    /\ attempt' = 1
    /\ pc' = "conectar"
    /\ UNCHANGED <<now, fileVars, waterVars, rainVars, critVars, handlerVars,
                   ciclos_counter, current_loop_time, last_status_log_time,
                   start_time, aguaLocals, chuvaLocals, decLocals, outVars,
                   dbVars>>

\* Lines 459-467: the initial load (fatal when it fails) and the three geo
\* layers, each loaded or None for the rest of the run.
CarregamentoInicial(Pacotes) ==
    /\ pc = "inicio"
    /\ LET r == carregar_ou_recarregar_artefatos IN
       /\ ml_model_instance' = r.ml
       /\ scaler_instance' = r.sc
       /\ timestamp_artefatos_carregados' = r.ts
       /\ n_cargas' = r.cargas
       /\ IF ~r.ret
          THEN /\ pc' = "fim_artefatos"
               /\ UNCHANGED <<last_artefatos_check_time, geoVars, attempt>>
          ELSE /\ last_artefatos_check_time' = now
               /\ \E g \in Pacotes :
                     /\ edificios_gdf_metric' = carregar_camada_geografica(g, "edificacoes")
                     /\ estradas_gdf_metric' = carregar_camada_geografica(g, "estradas")
                     /\ rios_gdf_metric' = carregar_camada_geografica(g, "rios")
               /\ attempt' = 1
               /\ pc' = "conectar"
    /\ UNCHANGED <<now, fileVars, waterVars, rainVars, critVars, handlerVars,
                   ciclos_counter, current_loop_time, last_status_log_time,
                   start_time, aguaLocals, chuvaLocals, decLocals, outVars,
                   dbVars>>

\* Faulty connection loop: one attempt more than MAX_MQTT_CONNECT_ATTEMPTS.
Conectar_tentativa_extra(Resultados) ==
    /\ pc = "conectar"
    /\ \E conectou \in Resultados :
          IF conectou
          THEN /\ pc' = "tick"
               /\ start_time' = now
               /\ last_status_log_time' = now
               /\ UNCHANGED <<now, attempt>>
          ELSE IF attempt <= MAX_MQTT_CONNECT_ATTEMPTS
               THEN /\ now' = now + MQTT_CONNECT_RETRY_DELAY_SECONDS
                    /\ attempt' = attempt + 1
                    /\ UNCHANGED <<pc, start_time, last_status_log_time>>
               ELSE /\ pc' = "fim_mqtt"
                    /\ UNCHANGED <<now, attempt, start_time, last_status_log_time>>
    /\ UNCHANGED <<fileVars, waterVars, rainVars, critVars, artVars, geoVars,
                   handlerVars, ciclos_counter, current_loop_time, aguaLocals,
                   chuvaLocals, decLocals, outVars, dbVars>>

\* Lines 476-500: one connection attempt; success starts the network loop
\* and the decision loop, the last failure ends main().
Conectar(Resultados) ==
    /\ pc = "conectar"
    /\ \E conectou \in Resultados :
          IF conectou
          THEN /\ pc' = "tick"
               /\ start_time' = now
               /\ last_status_log_time' = now
               /\ UNCHANGED <<now, attempt>>
          ELSE IF attempt < MAX_MQTT_CONNECT_ATTEMPTS
               THEN /\ now' = now + MQTT_CONNECT_RETRY_DELAY_SECONDS
                    /\ attempt' = attempt + 1
                    /\ UNCHANGED <<pc, start_time, last_status_log_time>>
               ELSE /\ pc' = "fim_mqtt"
                    /\ UNCHANGED <<now, attempt, start_time, last_status_log_time>>
    /\ UNCHANGED <<fileVars, waterVars, rainVars, critVars, artVars, geoVars,
                   handlerVars, ciclos_counter, current_loop_time, aguaLocals,
                   chuvaLocals, decLocals, outVars, dbVars>>

\* The network thread delivers messages from client.loop_start() (line 495)
\* to client.loop_stop() (line 699).
LoopMQTTAtivo ==
    pc \notin {"inicio", "conectar", "loop_parado_erro", "loop_parado_interrupcao"}
               \cup Fim


(***************************************************************************)
(* MQTT callbacks (network thread)                                         *)
(***************************************************************************)
\* Faulty callback: a payload that does not decode clears the last reading.
ReceberAgua_apaga_leitura(Payloads) ==
    /\ LoopMQTTAtivo
    /\ hpc = "idle"
    /\ msgs_recebidas_counter' = msgs_recebidas_counter + 1
    /\ \E p \in Payloads :
          IF p.type = "invalid"
          THEN /\ latest_water_level_data' = PyNone
               /\ UNCHANGED <<hpc, hmsg>>
          ELSE /\ latest_water_level_data' = p
               /\ hmsg' = p
               /\ hpc' = "agua_ts"
    /\ UNCHANGED <<now, fileVars, timestamp_last_water_data, rainVars, critVars,
                   artVars, geoVars, pc, loopVars, aguaLocals, chuvaLocals,
                   decLocals, outVars, dbVars>>

\* on_message_water_level, lines 130-134 up to the store of the payload.
ReceberAgua(Payloads) ==
    /\ LoopMQTTAtivo
    /\ hpc = "idle"
    /\ msgs_recebidas_counter' = msgs_recebidas_counter + 1
    /\ \E p \in Payloads :
          IF p.type = "invalid"
          THEN UNCHANGED <<latest_water_level_data, hpc, hmsg>>
          ELSE /\ latest_water_level_data' = p
               /\ hmsg' = p
               /\ hpc' = "agua_ts"
    /\ UNCHANGED <<now, fileVars, timestamp_last_water_data, rainVars, critVars,
                   artVars, geoVars, pc, loopVars, aguaLocals, chuvaLocals,
                   decLocals, outVars, dbVars>>

\* Faulty callback: the payload is stored and the reading inserted, the
\* timestamp of the last water reading is left as it was.
ReceberAguaTs_sem_timestamp(Db) ==
    /\ hpc = "agua_ts"
    /\ hpc' = "idle"
    /\ hmsg' = PyNone
    /\ IF ~HasGet(hmsg)
       THEN UNCHANGED LeiturasSensores
       ELSE \E db \in Db :
               LeiturasSensores' =
                   inserir_leitura_sensor(LeiturasSensores, db, "nivel_agua",
                       Get(hmsg, "level_category", "N/A"), hmsg)
    /\ UNCHANGED <<now, fileVars, waterVars, rainVars, critVars,
                   artVars, geoVars, msgs_recebidas_counter, pc, loopVars,
                   aguaLocals, chuvaLocals, decLocals, outVars, AnalisesPOIs,
                   AlertasEventosSistema, StatusHub>>

\* on_message_water_level, lines 134-144: the timestamp, then the category
\* (data.get raises on a payload that is no dict) and the insert.
ReceberAguaTs(Db) ==
    /\ hpc = "agua_ts"
    /\ timestamp_last_water_data' = Some(now)
    /\ hpc' = "idle"
    /\ hmsg' = PyNone
    /\ IF ~HasGet(hmsg)
       THEN UNCHANGED LeiturasSensores
       ELSE \E db \in Db :
               LeiturasSensores' =
                   inserir_leitura_sensor(LeiturasSensores, db, "nivel_agua",
                       Get(hmsg, "level_category", "N/A"), hmsg)
    /\ UNCHANGED <<now, fileVars, latest_water_level_data, rainVars, critVars,
                   artVars, geoVars, msgs_recebidas_counter, pc, loopVars,
                   aguaLocals, chuvaLocals, decLocals, outVars, AnalisesPOIs,
                   AlertasEventosSistema, StatusHub>>

\* on_message_rainfall, lines 147-151 up to the store of the payload.
ReceberChuva(Payloads) ==
    /\ LoopMQTTAtivo
    /\ hpc = "idle"
    /\ msgs_recebidas_counter' = msgs_recebidas_counter + 1
    /\ \E p \in Payloads :
          IF p.type = "invalid"
          THEN UNCHANGED <<latest_rainfall_data, hpc, hmsg>>
          ELSE /\ latest_rainfall_data' = p
               /\ hmsg' = p
               /\ hpc' = "chuva_ts"
    /\ UNCHANGED <<now, fileVars, waterVars, timestamp_last_rain_data, critVars,
                   artVars, geoVars, pc, loopVars, aguaLocals, chuvaLocals,
                   decLocals, outVars, dbVars>>

\* Faulty callback: a reading that cannot be inserted is dropped from the
\* state too.
ReceberChuvaTs_desfaz_em_falha(Db) ==
    /\ hpc = "chuva_ts"
    /\ hpc' = "idle"
    /\ hmsg' = PyNone
    /\ \E db \in Db :
          IF HasGet(hmsg) /\ db # "ok"
          THEN /\ latest_rainfall_data' = PyNone
               /\ UNCHANGED <<timestamp_last_rain_data, LeiturasSensores>>
          ELSE /\ timestamp_last_rain_data' = Some(now)
               /\ UNCHANGED latest_rainfall_data
               /\ LeiturasSensores' =
                      IF HasGet(hmsg)
                      THEN inserir_leitura_sensor(LeiturasSensores, db, "qtd_chuva",
                               Get(hmsg, "intensity_category", "N/A"), hmsg)
                      ELSE LeiturasSensores
    /\ UNCHANGED <<now, fileVars, waterVars, critVars,
                   artVars, geoVars, msgs_recebidas_counter, pc, loopVars,
                   aguaLocals, chuvaLocals, decLocals, outVars, AnalisesPOIs,
                   AlertasEventosSistema, StatusHub>>

\* on_message_rainfall, lines 151-161.
ReceberChuvaTs(Db) ==
    /\ hpc = "chuva_ts"
    /\ timestamp_last_rain_data' = Some(now)
    /\ hpc' = "idle"
    /\ hmsg' = PyNone
    /\ IF ~HasGet(hmsg)
       THEN UNCHANGED LeiturasSensores
       ELSE \E db \in Db :
               LeiturasSensores' =
                   inserir_leitura_sensor(LeiturasSensores, db, "qtd_chuva",
                       Get(hmsg, "intensity_category", "N/A"), hmsg)
    /\ UNCHANGED <<now, fileVars, waterVars, latest_rainfall_data, critVars,
                   artVars, geoVars, msgs_recebidas_counter, pc, loopVars,
                   aguaLocals, chuvaLocals, decLocals, outVars, AnalisesPOIs,
                   AlertasEventosSistema, StatusHub>>

\* Lines 181-188 of on_message_esp_critical_alert_status: both inserts on one
\* connection; each insert catches its own sqlite3.Error.
PersistirAlertaCritico(data, log_cat_valor, Db) ==
    \E conn \in Db, db1 \in Db \ {"sem_conexao"}, db2 \in Db \ {"sem_conexao"} :
        IF conn = "sem_conexao"
        THEN UNCHANGED <<LeiturasSensores, AlertasEventosSistema>>
        ELSE /\ LeiturasSensores' =
                    inserir_leitura_sensor(LeiturasSensores, db1,
                        "alerta_critico_esp32", log_cat_valor, data)
             /\ AlertasEventosSistema' =
                    inserir_alerta_evento_sistema(AlertasEventosSistema, db2,
                        "ALERTA_CRITICO_RECEBIDO_ESP32", "ESP32_SENSOR",
                        log_cat_valor, data)

\* Faulty callback: a status that is neither ACTIVE nor CLEARED clears the
\* alert.
ReceberCritico_desconhecido_limpa(Payloads, Db) ==
    /\ LoopMQTTAtivo
    /\ hpc = "idle"
    /\ msgs_recebidas_counter' = msgs_recebidas_counter + 1
    /\ \E p \in Payloads :
          IF p.type = "invalid" \/ ~HasGet(p)
          THEN UNCHANGED <<esp32_critical_alert_is_active, hpc, hmsg, dbVars>>
          ELSE LET alert_status == Upper(Get(p, "status", "")) IN
               IF alert_status = "ACTIVE"
               THEN /\ esp32_critical_alert_is_active' = TRUE
                    /\ hmsg' = p
                    /\ hpc' = "critico_active"
                    /\ UNCHANGED dbVars
               ELSE IF alert_status = "CLEARED"
               THEN /\ esp32_critical_alert_is_active' = FALSE
                    /\ hmsg' = p
                    /\ hpc' = "critico_cleared"
                    /\ UNCHANGED dbVars
               ELSE /\ PersistirAlertaCritico(p, "DESCONHECIDO", Db)
                    /\ esp32_critical_alert_is_active' = FALSE
                    /\ UNCHANGED <<hpc, hmsg, AnalisesPOIs, StatusHub>>
    /\ UNCHANGED <<now, fileVars, waterVars, rainVars,
                   esp32_critical_alert_details, artVars, geoVars, pc, loopVars,
                   aguaLocals, chuvaLocals, decLocals, outVars>>

\* on_message_esp_critical_alert_status, lines 164-171/175/180: the counter,
\* the decoding, the status and the store of the flag.
ReceberCritico(Payloads, Db) ==
    /\ LoopMQTTAtivo
    /\ hpc = "idle"
    /\ msgs_recebidas_counter' = msgs_recebidas_counter + 1
    /\ \E p \in Payloads :
          IF p.type = "invalid" \/ ~HasGet(p)
          THEN UNCHANGED <<esp32_critical_alert_is_active, hpc, hmsg, dbVars>>
          ELSE LET alert_status == Upper(Get(p, "status", "")) IN
               IF alert_status = "ACTIVE"
               THEN /\ esp32_critical_alert_is_active' = TRUE
                    /\ hmsg' = p
                    /\ hpc' = "critico_active"
                    /\ UNCHANGED dbVars
               ELSE IF alert_status = "CLEARED"
               THEN /\ esp32_critical_alert_is_active' = FALSE
                    /\ hmsg' = p
                    /\ hpc' = "critico_cleared"
                    /\ UNCHANGED dbVars
               ELSE /\ PersistirAlertaCritico(p, "DESCONHECIDO", Db)
                    /\ UNCHANGED <<esp32_critical_alert_is_active, hpc, hmsg,
                                   AnalisesPOIs, StatusHub>>
    /\ UNCHANGED <<now, fileVars, waterVars, rainVars,
                   esp32_critical_alert_details, artVars, geoVars, pc, loopVars,
                   aguaLocals, chuvaLocals, decLocals, outVars>>

\* Line 171, second statement, and lines 181-188.
ReceberCriticoActive(Db) ==
    /\ hpc = "critico_active"
    /\ esp32_critical_alert_details' = hmsg
    /\ PersistirAlertaCritico(hmsg, "ACTIVE", Db)
    /\ hpc' = "idle"
    /\ hmsg' = PyNone
    /\ UNCHANGED <<now, fileVars, waterVars, rainVars,
                   esp32_critical_alert_is_active, artVars, geoVars,
                   msgs_recebidas_counter, pc, loopVars, aguaLocals, chuvaLocals,
                   decLocals, outVars, AnalisesPOIs, StatusHub>>

\* Line 175, second statement, and lines 181-188.
ReceberCriticoCleared(Db) ==
    /\ hpc = "critico_cleared"
    /\ esp32_critical_alert_details' = PyNone
    /\ PersistirAlertaCritico(hmsg, "CLEARED", Db)
    /\ hpc' = "idle"
    /\ hmsg' = PyNone
    /\ UNCHANGED <<now, fileVars, waterVars, rainVars,
                   esp32_critical_alert_is_active, artVars, geoVars,
                   msgs_recebidas_counter, pc, loopVars, aguaLocals, chuvaLocals,
                   decLocals, outVars, AnalisesPOIs, StatusHub>>


(***************************************************************************)
(* Classifier and impact assessment                                        *)
(***************************************************************************)
\* The probabilities the classifier of version 1 with the scaler of version 1
\* gives the four POIs: 0.05, 0.028, 0.0279999 and 0.001.
ProbBase == <<500000, 280000, 279999, 10000>>

\* model.predict_proba(scaler.transform(X))[:, 1] for POI i: a function of
\* the two artifacts and the POI's features only.
predict_proba(modelo, scaler, i) ==
    ProbBase[((i - 1 + (modelo.ver - 1) + 2 * (scaler.ver - 1)) % 4) + 1]

\* Faulty comparison: the threshold itself is not high risk.
is_geo_high_risk_estrito(prob, threshold) == prob > threshold

\* Line 244: is_geo_high_risk = (prob >= threshold).
is_geo_high_risk(prob, threshold) == prob >= threshold

\* realizar_predicoes_geograficas_pois: one prediction per POI, in order;
\* the empty list without a model or a scaler.
realizar_predicoes_geograficas_pois(model_to_use, scaler_to_use, threshold) ==
    IF model_to_use = NoArtefato \/ scaler_to_use = NoArtefato
    THEN <<>>
    ELSE [i \in POIs |->
            LET prob == predict_proba(model_to_use, scaler_to_use, i) IN
            [nome_poi |-> i,
             geo_probability_flood |-> prob,
             is_geo_high_risk |-> is_geo_high_risk(prob, threshold),
             carga |-> model_to_use.carga]]

\* Distances (m) from POI i to the features of a layer.
DistanciasFeicoes(layer, i) ==
    CASE layer = "edificacoes" -> <<{50, 250, 450}, {}, {350}, {250}>>[i]
      [] layer = "estradas" -> <<{150}, {400}, {}, {100, 450}>>[i]
      [] OTHER -> <<{20, 480}, {}, {300}, {800}>>[i]

\* The features of a layer that intersect the buffer of POI i.
FeicoesNoBuffer(layer, i, raio) ==
    Cardinality({d \in DistanciasFeicoes(layer, i) : d <= raio})

\* What an impact function returns: the kind of text, the radius of the
\* buffer it used (0 when it made no query) and the features it found.
ImpactoSemConsulta(txt) == [txt |-> txt, raio |-> 0, n |-> 0]
ImpactoConsulta(layer, i, raio, falha) ==
    IF falha THEN [txt |-> "erro", raio |-> raio, n |-> 0]
    ELSE LET n == FeicoesNoBuffer(layer, i, raio) IN
         [txt |-> IF n = 0 THEN "nenhuma" ELSE "resumo", raio |-> raio, n |-> n]

\* avaliar_impacto_edificacoes, lines 288-324.
avaliar_impacto_edificacoes(i, categoria_agua_atual, falha) ==
    IF ~edificios_gdf_metric THEN ImpactoSemConsulta("indisponivel")
    ELSE LET raio_buffer_dinamico_meters ==
                 IF categoria_agua_atual = "Alto" THEN RAIO_BUFFER_AGUA_ALTO_METERS
                 ELSE IF categoria_agua_atual = "Medio" THEN RAIO_BUFFER_AGUA_MEDIO_METERS
                 ELSE RAIO_BUFFER_PADRAO_METERS
         IN ImpactoConsulta("edificacoes", i, raio_buffer_dinamico_meters, falha)

\* Faulty impact function: a computation that fails leaves the roads of the
\* POI unassessed.
avaliar_impacto_estradas_sem_sentinela(i, categoria_agua_atual, falha) ==
    IF ~estradas_gdf_metric THEN ImpactoSemConsulta("indisponivel")
    ELSE IF falha THEN ImpactoSemConsulta("---")
    ELSE LET raio_buffer_dinamico_meters ==
                 IF categoria_agua_atual = "Alto" THEN RAIO_BUFFER_AGUA_ALTO_METERS
                 ELSE IF categoria_agua_atual = "Medio" THEN RAIO_BUFFER_AGUA_MEDIO_METERS
                 ELSE RAIO_BUFFER_PADRAO_METERS
         IN ImpactoConsulta("estradas", i, raio_buffer_dinamico_meters, FALSE)

\* Faulty impact function: the buffer of the roads keeps the default radius.
avaliar_impacto_estradas_raio_padrao(i, categoria_agua_atual, falha) ==
    IF ~estradas_gdf_metric THEN ImpactoSemConsulta("indisponivel")
    ELSE ImpactoConsulta("estradas", i, RAIO_BUFFER_PADRAO_METERS, falha)

\* avaliar_impacto_estradas, lines 332-383.
avaliar_impacto_estradas(i, categoria_agua_atual, falha) ==
    IF ~estradas_gdf_metric THEN ImpactoSemConsulta("indisponivel")
    ELSE LET raio_buffer_dinamico_meters ==
                 IF categoria_agua_atual = "Alto" THEN RAIO_BUFFER_AGUA_ALTO_METERS
                 ELSE IF categoria_agua_atual = "Medio" THEN RAIO_BUFFER_AGUA_MEDIO_METERS
                 ELSE RAIO_BUFFER_PADRAO_METERS
         IN ImpactoConsulta("estradas", i, raio_buffer_dinamico_meters, falha)

\* Faulty impact function: the rivers are queried without a look at the layer.
avaliar_impacto_rios_sem_verificar(i, categoria_agua_atual, falha) ==
    ImpactoConsulta("rios", i,
        IF categoria_agua_atual = "Alto" THEN RAIO_BUFFER_AGUA_ALTO_METERS
        ELSE IF categoria_agua_atual = "Medio" THEN RAIO_BUFFER_AGUA_MEDIO_METERS
        ELSE RAIO_BUFFER_PADRAO_METERS, falha)

\* avaliar_impacto_rios, lines 391-422.
avaliar_impacto_rios(i, categoria_agua_atual, falha) ==
    IF ~rios_gdf_metric THEN ImpactoSemConsulta("indisponivel")
    ELSE LET raio_buffer_dinamico_meters ==
                 IF categoria_agua_atual = "Alto" THEN RAIO_BUFFER_AGUA_ALTO_METERS
                 ELSE IF categoria_agua_atual = "Medio" THEN RAIO_BUFFER_AGUA_MEDIO_METERS
                 ELSE RAIO_BUFFER_PADRAO_METERS
         IN ImpactoConsulta("rios", i, raio_buffer_dinamico_meters, falha)

\* The (layer, POI) pairs whose geometry computation raises in a cycle.
FalhasImpacto == { {}, {<<"estradas", 1>>} }

\* Faulty sensor alert: the rain is left out.
sensores_em_alerta_so_agua(categoria_agua, categoria_chuva) ==
    categoria_agua \in {"Medio", "Alto"}

\* Faulty combination: either of the two is enough.
alto_risco_combinado_ou(risco_geo_alto, sensores_em_alerta) ==
    risco_geo_alto \/ sensores_em_alerta

\* Faulty fusion: the result of the POIs overwrites the decision so far.
risco_final_sobrescrito(algum_poi_em_alerta_combinado, risco_atual) ==
    algum_poi_em_alerta_combinado

\* Faulty fusion: the result of the POIs is dropped.
risco_final_sem_pois(algum_poi_em_alerta_combinado, risco_atual) ==
    risco_atual

\* Lines 607-609: the sensors' part of the combined alert.
sensores_em_alerta_combinado(categoria_agua, categoria_chuva) ==
    LET agua_alerta == categoria_agua \in {"Medio", "Alto"}
        chuva_para_alerta_combinado == categoria_chuva \in {"Moderada", "Pesada"}
    IN agua_alerta \/ chuva_para_alerta_combinado

\* Line 611: the POI is in combined high risk.
alto_risco_combinado(risco_geo_alto, sensores_em_alerta) ==
    risco_geo_alto /\ sensores_em_alerta

\* Line 664: the cycle's decision after the loop over the POIs.
risco_final_apos_pois(algum_poi_em_alerta_combinado, risco_atual) ==
    IF algum_poi_em_alerta_combinado /\ ~risco_atual THEN TRUE ELSE risco_atual

\* Faulty record: the row keeps the default radius.
raio_buffer_usado_db_padrao(categoria_agua) == RAIO_BUFFER_PADRAO_METERS

\* Lines 639-640: the radius written to the POI's row.
raio_buffer_usado_db(categoria_agua) ==
    IF categoria_agua = "Alto" THEN RAIO_BUFFER_AGUA_ALTO_METERS
    ELSE IF categoria_agua = "Medio" THEN RAIO_BUFFER_AGUA_MEDIO_METERS
    ELSE RAIO_BUFFER_PADRAO_METERS

\* Faulty row: the radius of the row follows the water category in every
\* branch, not only for a POI in combined high risk.
AnalisePOI_raio_pela_agua(p_geo, falhas) ==
    LET i == p_geo.nome_poi
        risco_geo_alto == p_geo.is_geo_high_risk
        base == [timestamp_ciclo_iso |-> current_loop_time,
                 nome_poi |-> i,
                 prob_geo_inundacao |-> p_geo.geo_probability_flood,
                 risco_geo_alto_bool |-> risco_geo_alto,
                 carga |-> p_geo.carga,
                 categoria_agua_sensor_no_ciclo |-> categoria_agua_display,
                 categoria_chuva_sensor_no_ciclo |-> categoria_chuva_display,
                 status_combinado_poi |-> "Sensor Agua",
                 sensores_em_alerta |-> FALSE,
                 raio_buffer_impacto_m |-> raio_buffer_usado_db(categoria_agua_display),
                 impacto_edificacoes |-> ImpactoSemConsulta("---"),
                 impacto_estradas |-> ImpactoSemConsulta("---"),
                 impacto_rios |-> ImpactoSemConsulta("---")]
    IN
    IF ~dados_agua_atuais THEN base
    ELSE LET sens == sensores_em_alerta_combinado(categoria_agua_display,
                                                  categoria_chuva_display) IN
         IF alto_risco_combinado(risco_geo_alto, sens)
         THEN [base EXCEPT
                 !.status_combinado_poi = "ALTO RISCO",
                 !.sensores_em_alerta = sens,
                 !.impacto_edificacoes =
                     avaliar_impacto_edificacoes(i, categoria_agua_display,
                                                 <<"edificacoes", i>> \in falhas),
                 !.impacto_estradas =
                     avaliar_impacto_estradas(i, categoria_agua_display,
                                              <<"estradas", i>> \in falhas),
                 !.impacto_rios =
                     avaliar_impacto_rios(i, categoria_agua_display,
                                          <<"rios", i>> \in falhas),
                 !.raio_buffer_impacto_m = raio_buffer_usado_db(categoria_agua_display)]
         ELSE [base EXCEPT
                 !.status_combinado_poi =
                     IF risco_geo_alto /\ ~sens
                     THEN "Risco Geo. ALTO, Condicoes Atuais OK"
                     ELSE "BAIXO RISCO",
                 !.sensores_em_alerta = sens]

\* Lines 593-661, one pass of the loop: the row of one prediction.
AnalisePOI(p_geo, falhas) ==
    LET i == p_geo.nome_poi
        risco_geo_alto == p_geo.is_geo_high_risk
        base == [timestamp_ciclo_iso |-> current_loop_time,
                 nome_poi |-> i,
                 prob_geo_inundacao |-> p_geo.geo_probability_flood,
                 risco_geo_alto_bool |-> risco_geo_alto,
                 carga |-> p_geo.carga,
                 categoria_agua_sensor_no_ciclo |-> categoria_agua_display,
                 categoria_chuva_sensor_no_ciclo |-> categoria_chuva_display,
                 status_combinado_poi |-> "Sensor Agua",
                 sensores_em_alerta |-> FALSE,
                 raio_buffer_impacto_m |-> RAIO_BUFFER_PADRAO_METERS,
                 impacto_edificacoes |-> ImpactoSemConsulta("---"),
                 impacto_estradas |-> ImpactoSemConsulta("---"),
                 impacto_rios |-> ImpactoSemConsulta("---")]
    IN
    IF ~dados_agua_atuais THEN base
    ELSE LET sens == sensores_em_alerta_combinado(categoria_agua_display,
                                                  categoria_chuva_display) IN
         IF alto_risco_combinado(risco_geo_alto, sens)
         THEN [base EXCEPT
                 !.status_combinado_poi = "ALTO RISCO",
                 !.sensores_em_alerta = sens,
                 !.impacto_edificacoes =
                     avaliar_impacto_edificacoes(i, categoria_agua_display,
                                                 <<"edificacoes", i>> \in falhas),
                 !.impacto_estradas =
                     avaliar_impacto_estradas(i, categoria_agua_display,
                                              <<"estradas", i>> \in falhas),
                 !.impacto_rios =
                     avaliar_impacto_rios(i, categoria_agua_display,
                                          <<"rios", i>> \in falhas),
                 !.raio_buffer_impacto_m = raio_buffer_usado_db(categoria_agua_display)]
         ELSE [base EXCEPT
                 !.status_combinado_poi =
                     IF risco_geo_alto /\ ~sens
                     THEN "Risco Geo. ALTO, Condicoes Atuais OK"
                     ELSE "BAIXO RISCO",
                 !.sensores_em_alerta = sens]


(***************************************************************************)
(* main(): the decision loop (main thread)                                 *)
(***************************************************************************)
\* Lines 696-697: an exception raised in the loop leaves the while and is
\* logged; the finally of line 698 is next.
ErroInesperado == pc' = "finally_erro"

\* The places of the main thread inside the try of line 502.
NoLoop ==
    pc \in {"tick", "agua530", "agua530b", "agua531", "agua532", "agua535",
            "chuva540", "chuva540b", "chuva541", "chuva542", "chuva545",
            "critico550", "critico551", "critico551b", "prof572", "prof573",
            "pois", "publicar", "telemetria", "dormir"}

\* Faulty iteration: the decision of the iteration before is kept (no line
\* 522).
LocaisIniciais_sem_linha_522 ==
    /\ UNCHANGED sistema_em_alto_risco_final
    /\ status_sensor_agua_obj' = "N/A"
    /\ categoria_agua_display' = "N/A"
    /\ dados_agua_atuais' = FALSE
    /\ status_sensor_chuva_obj' = "N/A"
    /\ categoria_chuva_display' = "N/A"
    /\ dados_chuva_atuais' = FALSE
    /\ critico_lido' = FALSE
    /\ mostrar_analise_detalhada_pois' = FALSE
    /\ mensagem_pois_simplificada' = ""
    /\ analise' = [feita |-> FALSE, linhas |-> <<>>, insercoes_tentadas |-> 0]
    /\ comando' = [chamado |-> FALSE, risco |-> FALSE, conectado |-> FALSE,
                   enviado |-> FALSE]
    /\ AnalisesPOIs' = <<>>

\* The locals of one iteration of the loop as lines 522, 529, 539 and 559
\* initialise them, and the record of what the iteration did, empty.  An
\* iteration leaves them so: each is written before the next one reads it.
LocaisIniciais ==
    /\ sistema_em_alto_risco_final' = FALSE
    /\ status_sensor_agua_obj' = "N/A"
    /\ categoria_agua_display' = "N/A"
    /\ dados_agua_atuais' = FALSE
    /\ status_sensor_chuva_obj' = "N/A"
    /\ categoria_chuva_display' = "N/A"
    /\ dados_chuva_atuais' = FALSE
    /\ critico_lido' = FALSE
    /\ mostrar_analise_detalhada_pois' = FALSE
    /\ mensagem_pois_simplificada' = ""
    /\ analise' = [feita |-> FALSE, linhas |-> <<>>, insercoes_tentadas |-> 0]
    /\ comando' = [chamado |-> FALSE, risco |-> FALSE, conectado |-> FALSE,
                   enviado |-> FALSE]
    /\ AnalisesPOIs' = <<>>

\* Faulty iteration: the skip of line 519 looks at the pair as it was before
\* the check of the files.
IniciarCiclo_pula_apos_recarga ==
    /\ pc = "tick"
    /\ ciclos_counter' = ciclos_counter + 1
    /\ current_loop_time' = now
    /\ IF (now - last_artefatos_check_time) > MODEL_CHECK_INTERVAL_SECONDS
       THEN LET r == carregar_ou_recarregar_artefatos IN
            /\ ml_model_instance' = r.ml
            /\ scaler_instance' = r.sc
            /\ timestamp_artefatos_carregados' = r.ts
            /\ n_cargas' = r.cargas
            /\ last_artefatos_check_time' = now
       ELSE UNCHANGED artVars
    /\ IF \/ ml_model_instance' = NoArtefato \/ scaler_instance' = NoArtefato
          \/ ml_model_instance = NoArtefato \/ scaler_instance = NoArtefato
       THEN pc' = "dormir"
       ELSE pc' = "agua530"
    /\ UNCHANGED <<now, fileVars, waterVars, rainVars, critVars, geoVars,
                   handlerVars, attempt, last_status_log_time, start_time,
                   aguaLocals, chuvaLocals, decLocals, outVars, dbVars>>

\* Lines 508-522: the counter, the clock, the artifact check, and the skip
\* of the cycle when the pair is not loaded.
IniciarCiclo ==
    /\ pc = "tick"
    /\ ciclos_counter' = ciclos_counter + 1
    /\ current_loop_time' = now
    /\ IF (now - last_artefatos_check_time) > MODEL_CHECK_INTERVAL_SECONDS
       THEN LET r == carregar_ou_recarregar_artefatos IN
            /\ ml_model_instance' = r.ml
            /\ scaler_instance' = r.sc
            /\ timestamp_artefatos_carregados' = r.ts
            /\ n_cargas' = r.cargas
            /\ last_artefatos_check_time' = now
       ELSE UNCHANGED artVars
    /\ IF ml_model_instance' = NoArtefato \/ scaler_instance' = NoArtefato
       THEN pc' = "dormir"
       ELSE pc' = "agua530"
    /\ UNCHANGED <<now, fileVars, waterVars, rainVars, critVars, geoVars,
                   handlerVars, attempt, last_status_log_time, start_time,
                   aguaLocals, chuvaLocals, decLocals, outVars, dbVars>>

\* What the steps of the sensor evaluation leave alone.
SensorStepFrame ==
    UNCHANGED <<now, fileVars, waterVars, rainVars, critVars, artVars, geoVars,
                handlerVars, loopVars, decLocals, outVars, dbVars>>

\* Line 530, first operand: bool(latest_water_level_data).
Agua530 ==
    /\ pc = "agua530"
    /\ pc' = IF Truthy(latest_water_level_data) THEN "agua530b" ELSE "agua535"
    /\ UNCHANGED <<aguaLocals, chuvaLocals>>
    /\ SensorStepFrame

\* Line 530, second operand: bool(timestamp_last_water_data).
Agua530b ==
    /\ pc = "agua530b"
    /\ pc' = IF timestamp_last_water_data # None THEN "agua531" ELSE "agua535"
    /\ UNCHANGED <<aguaLocals, chuvaLocals>>
    /\ SensorStepFrame

\* Line 531: latest_water_level_data.get('level_category', 'N/A').
Agua531 ==
    /\ pc = "agua531"
    /\ IF HasGet(latest_water_level_data)
       THEN /\ categoria_agua_display' =
                   Get(latest_water_level_data, "level_category", "N/A")
            /\ pc' = "agua532"
       ELSE /\ ErroInesperado
            /\ UNCHANGED categoria_agua_display
    /\ UNCHANGED <<status_sensor_agua_obj, dados_agua_atuais, chuvaLocals>>
    /\ SensorStepFrame

\* Lines 532-534: fresh or stale.
Agua532 ==
    /\ pc = "agua532"
    /\ IF (current_loop_time - timestamp_last_water_data[1]) < SENSOR_DATA_TIMEOUT_SECONDS
       THEN /\ dados_agua_atuais' = TRUE
            /\ status_sensor_agua_obj' = "Atual"
       ELSE /\ status_sensor_agua_obj' = "Desatualizado"
            /\ UNCHANGED dados_agua_atuais
    /\ pc' = "chuva540"
    /\ UNCHANGED <<categoria_agua_display, chuvaLocals>>
    /\ SensorStepFrame

\* Line 535: elif timestamp_last_water_data is None.
Agua535 ==
    /\ pc = "agua535"
    /\ IF timestamp_last_water_data = None
       THEN status_sensor_agua_obj' = "Sem Comunicacao"
       ELSE UNCHANGED status_sensor_agua_obj
    /\ pc' = "chuva540"
    /\ UNCHANGED <<categoria_agua_display, dados_agua_atuais, chuvaLocals>>
    /\ SensorStepFrame

\* Line 540, first operand.
Chuva540 ==
    /\ pc = "chuva540"
    /\ pc' = IF Truthy(latest_rainfall_data) THEN "chuva540b" ELSE "chuva545"
    /\ UNCHANGED <<aguaLocals, chuvaLocals>>
    /\ SensorStepFrame

\* Line 540, second operand.
Chuva540b ==
    /\ pc = "chuva540b"
    /\ pc' = IF timestamp_last_rain_data # None THEN "chuva541" ELSE "chuva545"
    /\ UNCHANGED <<aguaLocals, chuvaLocals>>
    /\ SensorStepFrame

\* Line 541.
Chuva541 ==
    /\ pc = "chuva541"
    /\ IF HasGet(latest_rainfall_data)
       THEN /\ categoria_chuva_display' =
                   Get(latest_rainfall_data, "intensity_category", "N/A")
            /\ pc' = "chuva542"
       ELSE /\ ErroInesperado
            /\ UNCHANGED categoria_chuva_display
    /\ UNCHANGED <<status_sensor_chuva_obj, dados_chuva_atuais, aguaLocals>>
    /\ SensorStepFrame

\* Lines 542-544.
Chuva542 ==
    /\ pc = "chuva542"
    /\ IF (current_loop_time - timestamp_last_rain_data[1]) < SENSOR_DATA_TIMEOUT_SECONDS
       THEN /\ dados_chuva_atuais' = TRUE
            /\ status_sensor_chuva_obj' = "Atual"
       ELSE /\ status_sensor_chuva_obj' = "Desatualizado"
            /\ UNCHANGED dados_chuva_atuais
    /\ pc' = "critico550"
    /\ UNCHANGED <<categoria_chuva_display, aguaLocals>>
    /\ SensorStepFrame

\* Line 545.
Chuva545 ==
    /\ pc = "chuva545"
    /\ IF timestamp_last_rain_data = None
       THEN status_sensor_chuva_obj' = "Sem Comunicacao"
       ELSE UNCHANGED status_sensor_chuva_obj
    /\ pc' = "critico550"
    /\ UNCHANGED <<categoria_chuva_display, dados_chuva_atuais, aguaLocals>>
    /\ SensorStepFrame

\* What the steps of the decision leave alone.
DecisaoStepFrame ==
    UNCHANGED <<now, fileVars, waterVars, rainVars, critVars, artVars, geoVars,
                handlerVars, loopVars, aguaLocals, chuvaLocals, outVars, dbVars>>

\* Faulty depth: rain of a category the hub does not know starts the
\* detailed analysis.
ProfundidadeSemAlerta_incerta_analisa ==
    IF ~dados_chuva_atuais THEN <<FALSE, "chuva indisponivel">>
    ELSE IF categoria_chuva_display = "Nenhuma" THEN <<FALSE, "chuva nenhuma">>
    ELSE <<TRUE, "">>

\* Faulty depth: rain of category Nenhuma starts the detailed analysis too.
ProfundidadeSemAlerta_com_nenhuma ==
    IF ~dados_chuva_atuais THEN <<FALSE, "chuva indisponivel">>
    ELSE IF categoria_chuva_display \in {"Nenhuma", "Leve", "Moderada", "Pesada"}
    THEN <<TRUE, "">>
    ELSE <<FALSE, "chuva incerta">>

\* Lines 560-571: the depth of the analysis when the cycle is not yet in
\* high risk: <<mostrar_analise_detalhada_pois, mensagem_pois_simplificada>>.
ProfundidadeSemAlerta ==
    IF ~dados_chuva_atuais THEN <<FALSE, "chuva indisponivel">>
    ELSE IF categoria_chuva_display = "Nenhuma" THEN <<FALSE, "chuva nenhuma">>
    ELSE IF categoria_chuva_display \in {"Leve", "Moderada", "Pesada"} THEN <<TRUE, "">>
    ELSE <<FALSE, "chuva incerta">>

\* Faulty iteration: the alert counts only while the rain reading is fresh.
Critico550_expira ==
    /\ pc = "critico550"
    /\ critico_lido' = (esp32_critical_alert_is_active /\ dados_chuva_atuais)
    /\ IF esp32_critical_alert_is_active /\ dados_chuva_atuais
       THEN /\ pc' = "critico551"
            /\ UNCHANGED <<sistema_em_alto_risco_final,
                           mostrar_analise_detalhada_pois,
                           mensagem_pois_simplificada>>
       ELSE /\ mostrar_analise_detalhada_pois' = ProfundidadeSemAlerta[1]
            /\ mensagem_pois_simplificada' = ProfundidadeSemAlerta[2]
            /\ pc' = "pois"
            /\ UNCHANGED sistema_em_alto_risco_final
    /\ DecisaoStepFrame

\* Line 550: the read of esp32_critical_alert_is_active; when it is false,
\* lines 559-571, which read no global.
Critico550 ==
    /\ pc = "critico550"
    /\ critico_lido' = esp32_critical_alert_is_active
    /\ IF esp32_critical_alert_is_active
       THEN /\ pc' = "critico551"
            /\ UNCHANGED <<sistema_em_alto_risco_final,
                           mostrar_analise_detalhada_pois,
                           mensagem_pois_simplificada>>
       ELSE /\ mostrar_analise_detalhada_pois' = ProfundidadeSemAlerta[1]
            /\ mensagem_pois_simplificada' = ProfundidadeSemAlerta[2]
            /\ pc' = "pois"
            /\ UNCHANGED sistema_em_alto_risco_final
    /\ DecisaoStepFrame

\* Faulty iteration: the loop takes the alert it has read off the shared
\* state.
Critico551_consome_alerta ==
    /\ pc = "critico551"
    /\ esp32_critical_alert_is_active' = FALSE
    /\ esp32_critical_alert_details' = PyNone
    /\ sistema_em_alto_risco_final' = TRUE
    /\ pc' = "prof572"
    /\ UNCHANGED <<critico_lido, mostrar_analise_detalhada_pois,
                   mensagem_pois_simplificada>>
    /\ UNCHANGED <<now, fileVars, waterVars, rainVars, artVars, geoVars,
                   handlerVars, loopVars, aguaLocals, chuvaLocals, outVars, dbVars>>

\* Line 551, the condition of the conditional expression; with no details,
\* lines 552-559.
Critico551 ==
    /\ pc = "critico551"
    /\ IF Truthy(esp32_critical_alert_details)
       THEN /\ pc' = "critico551b"
            /\ UNCHANGED sistema_em_alto_risco_final
       ELSE /\ sistema_em_alto_risco_final' = TRUE
            /\ pc' = "prof572"
    /\ UNCHANGED <<critico_lido, mostrar_analise_detalhada_pois,
                   mensagem_pois_simplificada>>
    /\ DecisaoStepFrame

\* Line 551, esp32_critical_alert_details.get(...), and lines 552-559.
Critico551b ==
    /\ pc = "critico551b"
    /\ IF HasGet(esp32_critical_alert_details)
       THEN /\ sistema_em_alto_risco_final' = TRUE
            /\ pc' = "prof572"
       ELSE /\ ErroInesperado
            /\ UNCHANGED sistema_em_alto_risco_final
    /\ UNCHANGED <<critico_lido, mostrar_analise_detalhada_pois,
                   mensagem_pois_simplificada>>
    /\ DecisaoStepFrame

\* Line 572: elif active and (rain not fresh or rain in [Nenhuma, N/A]): pass.
Prof572 ==
    /\ pc = "prof572"
    /\ pc' = IF /\ esp32_critical_alert_is_active
                /\ \/ ~dados_chuva_atuais
                   \/ categoria_chuva_display \in {"Nenhuma", "N/A"}
             THEN "pois" ELSE "prof573"
    /\ UNCHANGED decLocals
    /\ DecisaoStepFrame

\* Line 573: elif active: detailed analysis.
Prof573 ==
    /\ pc = "prof573"
    /\ mostrar_analise_detalhada_pois' =
           IF esp32_critical_alert_is_active THEN TRUE
           ELSE mostrar_analise_detalhada_pois
    /\ pc' = "pois"
    /\ UNCHANGED <<sistema_em_alto_risco_final, critico_lido,
                   mensagem_pois_simplificada>>
    /\ DecisaoStepFrame

\* The rows of AnalisesPOIs that inserir_analise_poi fails to insert.
FalhasInsertAnalise == { {}, {2} }

\* Faulty persistence: the row of a POI whose analysis was suspended for
\* want of a fresh water reading is not inserted.
LinhasInseridas_so_com_agua(linhas, conn_analise, falhas_db) ==
    IF conn_analise # "sem_conexao"
    THEN SelectSeq(linhas, LAMBDA l : l.nome_poi \notin falhas_db
                                      /\ l.status_combinado_poi # "Sensor Agua")
    ELSE <<>>

\* Lines 653-661, over the whole loop: with a connection, inserir_analise_poi
\* is called with the row of every POI, and the rows whose INSERT does not
\* raise are in the table.
LinhasInseridas(linhas, conn_analise, falhas_db) ==
    IF conn_analise # "sem_conexao"
    THEN SelectSeq(linhas, LAMBDA l : l.nome_poi \notin falhas_db)
    ELSE <<>>

\* Faulty analysis: without a connection to the database the POIs are not
\* analysed.
AnalisarPOIs_so_com_conexao(Falhas, Db) ==
    /\ pc = "pois"
    /\ IF mostrar_analise_detalhada_pois
       THEN \E falhas \in Falhas, conn_analise \in Db,
               falhas_db \in (IF "erro_insert" \in Db THEN FalhasInsertAnalise ELSE {{}}) :
               LET predicoes_geograficas ==
                       realizar_predicoes_geograficas_pois(
                           ml_model_instance, scaler_instance, PREDICTION_THRESHOLD)
                   linhas == [k \in 1..Len(predicoes_geograficas) |->
                                 AnalisePOI(predicoes_geograficas[k], falhas)]
                   algum_poi_em_alerta_combinado ==
                       \E k \in 1..Len(linhas) :
                           linhas[k].status_combinado_poi = "ALTO RISCO"
               IN IF conn_analise = "sem_conexao"
                  THEN UNCHANGED <<analise, AnalisesPOIs, sistema_em_alto_risco_final>>
                  ELSE /\ analise' = [feita |-> TRUE, linhas |-> linhas,
                                       insercoes_tentadas |-> Len(linhas)]
                       /\ AnalisesPOIs' =
                              SelectSeq(linhas, LAMBDA l : l.nome_poi \notin falhas_db)
                       /\ sistema_em_alto_risco_final' =
                              risco_final_apos_pois(algum_poi_em_alerta_combinado,
                                                    sistema_em_alto_risco_final)
       ELSE UNCHANGED <<analise, AnalisesPOIs, sistema_em_alto_risco_final>>
    /\ pc' = "publicar"
    /\ UNCHANGED <<now, fileVars, waterVars, rainVars, critVars, artVars, geoVars,
                   handlerVars, loopVars, aguaLocals, chuvaLocals, critico_lido,
                   mostrar_analise_detalhada_pois, mensagem_pois_simplificada,
                   comando, alertas_enviados_counter, ciclos_anteriores,
                   LeiturasSensores, AlertasEventosSistema, StatusHub>>

\* Lines 584-672: the detailed analysis of every POI with its inserts, or
\* the simplified table.
AnalisarPOIs(Falhas, Db) ==
    /\ pc = "pois"
    /\ IF mostrar_analise_detalhada_pois
       THEN \E falhas \in Falhas, conn_analise \in Db,
               falhas_db \in (IF "erro_insert" \in Db THEN FalhasInsertAnalise ELSE {{}}) :
               LET predicoes_geograficas ==
                       realizar_predicoes_geograficas_pois(
                           ml_model_instance, scaler_instance, PREDICTION_THRESHOLD)
                   linhas == [k \in 1..Len(predicoes_geograficas) |->
                                 AnalisePOI(predicoes_geograficas[k], falhas)]
                   algum_poi_em_alerta_combinado ==
                       \E k \in 1..Len(linhas) :
                           linhas[k].status_combinado_poi = "ALTO RISCO"
               IN /\ analise' = [feita |-> TRUE, linhas |-> linhas,
                                  insercoes_tentadas |->
                                      IF conn_analise # "sem_conexao"
                                      THEN Len(linhas) ELSE 0]
                  /\ AnalisesPOIs' = LinhasInseridas(linhas, conn_analise, falhas_db)
                  /\ sistema_em_alto_risco_final' =
                         risco_final_apos_pois(algum_poi_em_alerta_combinado,
                                               sistema_em_alto_risco_final)
       ELSE UNCHANGED <<analise, AnalisesPOIs, sistema_em_alto_risco_final>>
    /\ pc' = "publicar"
    /\ UNCHANGED <<now, fileVars, waterVars, rainVars, critVars, artVars, geoVars,
                   handlerVars, loopVars, aguaLocals, chuvaLocals, critico_lido,
                   mostrar_analise_detalhada_pois, mensagem_pois_simplificada,
                   comando, alertas_enviados_counter, ciclos_anteriores,
                   LeiturasSensores, AlertasEventosSistema, StatusHub>>

\* Faulty publisher: a normal command puts the counter of alerts back to 0.
publicar_comando_alerta_zera_contador(overall_system_risk_high, Conexao, Db) ==
    LET nivel == IF overall_system_risk_high THEN "high" ELSE "normal" IN
    /\ alertas_enviados_counter' =
           IF overall_system_risk_high THEN alertas_enviados_counter + 1 ELSE 0
    /\ \E is_connected \in Conexao, db \in Db :
          IF is_connected
          THEN /\ comando' = [chamado |-> TRUE, risco |-> overall_system_risk_high,
                              conectado |-> TRUE, enviado |-> TRUE]
               /\ AlertasEventosSistema' =
                      inserir_alerta_evento_sistema(AlertasEventosSistema, db,
                          "COMANDO_RISCO_SISTEMA_ESP32", "HUB_PYTHON", nivel,
                          Dict([system_risk |-> nivel]))
          ELSE /\ comando' = [chamado |-> TRUE, risco |-> overall_system_risk_high,
                              conectado |-> FALSE, enviado |-> FALSE]
               /\ UNCHANGED AlertasEventosSistema

\* Faulty publisher: the command is handed to the transport without asking
\* whether it is connected.
publicar_comando_alerta_sem_verificar(overall_system_risk_high, Conexao, Db) ==
    LET nivel == IF overall_system_risk_high THEN "high" ELSE "normal" IN
    /\ alertas_enviados_counter' =
           IF overall_system_risk_high THEN alertas_enviados_counter + 1
           ELSE alertas_enviados_counter
    /\ \E is_connected \in Conexao, db \in Db :
          /\ comando' = [chamado |-> TRUE, risco |-> overall_system_risk_high,
                         conectado |-> is_connected, enviado |-> TRUE]
          /\ AlertasEventosSistema' =
                 inserir_alerta_evento_sistema(AlertasEventosSistema, db,
                     "COMANDO_RISCO_SISTEMA_ESP32", "HUB_PYTHON", nivel,
                     Dict([system_risk |-> nivel]))

\* publicar_comando_alerta(client, overall_system_risk_high), lines 426-445,
\* called at line 677: client.publish (line 434) and the insert of the event
\* (lines 435-440) are both under client.is_connected() (line 433).
publicar_comando_alerta(overall_system_risk_high, Conexao, Db) ==
    LET nivel == IF overall_system_risk_high THEN "high" ELSE "normal" IN
    /\ alertas_enviados_counter' =
           IF overall_system_risk_high THEN alertas_enviados_counter + 1
           ELSE alertas_enviados_counter
    /\ \E is_connected \in Conexao, db \in Db :
          IF is_connected
          THEN /\ comando' = [chamado |-> TRUE, risco |-> overall_system_risk_high,
                              conectado |-> TRUE, enviado |-> TRUE]
               /\ AlertasEventosSistema' =
                      inserir_alerta_evento_sistema(AlertasEventosSistema, db,
                          "COMANDO_RISCO_SISTEMA_ESP32", "HUB_PYTHON", nivel,
                          Dict([system_risk |-> nivel]))
          ELSE /\ comando' = [chamado |-> TRUE, risco |-> overall_system_risk_high,
                              conectado |-> FALSE, enviado |-> FALSE]
               /\ UNCHANGED AlertasEventosSistema

Publicar(Conexao, Db) ==
    /\ pc = "publicar"
    /\ publicar_comando_alerta(sistema_em_alto_risco_final, Conexao, Db)
    /\ pc' = "telemetria"
    /\ UNCHANGED <<now, fileVars, waterVars, rainVars, critVars, artVars, geoVars,
                   handlerVars, loopVars, aguaLocals, chuvaLocals, decLocals,
                   analise, ciclos_anteriores, LeiturasSensores, AnalisesPOIs,
                   StatusHub>>

\* inserir_status_hub on a connection: the table after the call.
inserir_status_hub(tabela, db, uptime_s, ciclos, msgs, alertas) ==
    IF db = "ok"
    THEN Inserir(tabela, [uptime_segundos |-> uptime_s,
                          ciclos_decisao_executados |-> ciclos,
                          mensagens_mqtt_recebidas |-> msgs,
                          alertas_sistema_enviados |-> alertas])
    ELSE tabela

\* What an iteration saw: the two sensor readings as lines 529-547 classified
\* them, the critical alert, the loaded pair and the POIs.
SnapshotCiclo ==
    [agua |-> <<status_sensor_agua_obj, categoria_agua_display, dados_agua_atuais>>,
     chuva |-> <<status_sensor_chuva_obj, categoria_chuva_display,
                 dados_chuva_atuais>>,
     critico |-> esp32_critical_alert_is_active,
     artefatos |-> <<ml_model_instance.ver, scaler_instance.ver>>,
     pois |-> POIs]

\* What an iteration did: the probability and the geographic risk of every
\* POI analysed, the POIs in combined high risk, the command published.
ResultadoCiclo ==
    [pois |-> [k \in DOMAIN analise.linhas |->
                  <<analise.linhas[k].prob_geo_inundacao,
                    analise.linhas[k].risco_geo_alto_bool>>],
     alto |-> {k \in DOMAIN analise.linhas :
                  analise.linhas[k].status_combinado_poi = "ALTO RISCO"},
     system_risk |-> IF comando.risco THEN "high" ELSE "normal"]

\* Lines 680-692: the periodic snapshot of the hub's counters; the iteration
\* ends.
FimDoCiclo(Db) ==
    /\ pc = "telemetria"
    /\ IF (current_loop_time - last_status_log_time) > STATUS_LOG_INTERVAL_SECONDS
       THEN /\ \E db \in Db :
                  StatusHub' = inserir_status_hub(StatusHub, db,
                                   current_loop_time - start_time, ciclos_counter,
                                   msgs_recebidas_counter, alertas_enviados_counter)
            /\ last_status_log_time' = current_loop_time
       ELSE UNCHANGED <<StatusHub, last_status_log_time>>
    /\ pc' = "dormir"
    /\ LocaisIniciais
    /\ UNCHANGED <<now, fileVars, waterVars, rainVars, critVars, artVars, geoVars,
                   handlerVars, attempt, ciclos_counter, current_loop_time,
                   start_time, alertas_enviados_counter, LeiturasSensores,
                   AlertasEventosSistema>>

Telemetria(Db) ==
    /\ FimDoCiclo(Db)
    /\ UNCHANGED ciclos_anteriores

\* The end of the iteration, with the iteration added to the record of the
\* finished ones.
TelemetriaRegistada(Db) ==
    /\ FimDoCiclo(Db)
    /\ ciclos_anteriores' =
           ciclos_anteriores \cup {[snapshot |-> SnapshotCiclo,
                                    resultado |-> ResultadoCiclo]}

\* What the steps that end main() leave alone.
SaidaFrame ==
    UNCHANGED <<now, fileVars, waterVars, rainVars, critVars, artVars, geoVars,
                handlerVars, loopVars, aguaLocals, chuvaLocals, decLocals,
                outVars, dbVars>>

\* Line 695: KeyboardInterrupt raised in the main thread, wherever it is in
\* the try; the except logs it and the finally of line 698 is next.
Interromper ==
    /\ NoLoop
    /\ pc' = "finally_interrupcao"
    /\ SaidaFrame

\* Faulty shutdown: the transport is disconnected with the network thread
\* still delivering messages, which is stopped after it.
PararLoopMQTT_depois ==
    /\ pc \in {"finally_erro", "finally_interrupcao"}
    /\ pc' = IF pc = "finally_erro" THEN "desconectado_erro"
             ELSE "desconectado_interrupcao"
    /\ SaidaFrame

\* Line 699, client.loop_stop(): the network thread is joined, a callback in
\* progress ends first.
PararLoopMQTT ==
    /\ pc \in {"finally_erro", "finally_interrupcao"}
    /\ hpc = "idle"
    /\ pc' = IF pc = "finally_erro" THEN "loop_parado_erro"
             ELSE "loop_parado_interrupcao"
    /\ SaidaFrame

\* Line 699, client.disconnect(), and lines 700-701: main() returns.
Desconectar ==
    /\ pc \in {"loop_parado_erro", "loop_parado_interrupcao",
                "desconectado_erro", "desconectado_interrupcao"}
    /\ pc' = IF pc \in {"loop_parado_erro", "desconectado_erro"} THEN "fim_erro"
             ELSE "fim_interrupcao"
    /\ SaidaFrame

\* Line 694 (and line 520): time.sleep(predicao_intervalo_segundos).
Dormir(Duracoes) ==
    /\ pc = "dormir"
    /\ \E dt \in Duracoes : now' = now + dt
    /\ pc' = "tick"
    /\ UNCHANGED <<fileVars, waterVars, rainVars, critVars, artVars, geoVars,
                   handlerVars, loopVars, aguaLocals, chuvaLocals, decLocals,
                   outVars, dbVars>>

(***************************************************************************)
(* Specification                                                           *)
(***************************************************************************)
\* The steps of the decision loop between the top of an iteration and the
\* analysis of the POIs: the reads of the globals the callbacks write.
LerAgua == Agua530 \/ Agua530b \/ Agua531 \/ Agua532 \/ Agua535
LerChuva == Chuva540 \/ Chuva540b \/ Chuva541 \/ Chuva542 \/ Chuva545
LerCritico == Critico550 \/ Critico551 \/ Critico551b \/ Prof572 \/ Prof573
LerSensores == LerAgua \/ LerChuva \/ LerCritico

Next ==
    \/ CarregamentoInicial(GeoPackages)
    \/ Conectar(BOOLEAN)
    \/ (file_ops < MaxFileOps /\ EscreverModelo)
    \/ (file_ops < MaxFileOps /\ EscreverScaler)
    \/ (file_ops < MaxFileOps /\ RemoverModelo)
    \/ (msgs_recebidas_counter < MaxMsgs /\ ReceberAgua(WaterPayloads))
    \/ ReceberAguaTs(DbOutcomes)
    \/ (msgs_recebidas_counter < MaxMsgs /\ ReceberChuva(RainPayloads))
    \/ ReceberChuvaTs(DbOutcomes)
    \/ (msgs_recebidas_counter < MaxMsgs /\ ReceberCritico(CriticalPayloads, DbOutcomes))
    \/ ReceberCriticoActive(DbOutcomes)
    \/ ReceberCriticoCleared(DbOutcomes)
    \/ (ciclos_counter < MaxCycles /\ IniciarCiclo)
    \/ LerSensores
    \/ AnalisarPOIs(FalhasImpacto, DbOutcomes)
    \/ Publicar(BOOLEAN, DbOutcomes)
    \/ Telemetria(DbOutcomes)
    \/ (ciclos_counter < MaxCycles /\ Dormir(TickDurations))
    \/ Interromper
    \/ PararLoopMQTT
    \/ Desconectar

Spec == Init /\ [][Next]_vars

(***************************************************************************)
(* The hub in three environments.  Each specification runs the same        *)
(* actions; it differs from Spec in what the broker, the disk and the      *)
(* database are allowed to do.                                             *)
(***************************************************************************)
GeoCompleto == [existe |-> TRUE, camadas |-> Layers]
GeoSemEstradas == [existe |-> TRUE, camadas |-> Layers \ {"estradas"}]

\* Well-formed messages of the three topics (section 6 of the interfaces).
WaterValidos ==
    { Dict([level_category |-> "Baixo"]),
      Dict([level_category |-> "Medio"]),
      Dict([level_category |-> "Alto"]) }
RainValidos ==
    { Dict([intensity_category |-> "Nenhuma"]),
      Dict([intensity_category |-> "Leve"]),
      Dict([intensity_category |-> "Moderada"]),
      Dict([intensity_category |-> "Pesada"]) }
CriticalValidos ==
    { Dict([status |-> "ACTIVE", distance_cm |-> "12"]),
      Dict([status |-> "CLEARED"]) }

\* Decision: well-formed messages, the artifact files left alone, a
\* database that works, a broker that accepts the first connection.
NextDecisao ==
    \/ CarregamentoInicial({GeoCompleto})
    \/ Conectar({TRUE})
    \/ (msgs_recebidas_counter < MaxMsgs /\ ReceberAgua(WaterValidos))
    \/ ReceberAguaTs({"ok"})
    \/ (msgs_recebidas_counter < MaxMsgs /\ ReceberChuva(RainValidos))
    \/ ReceberChuvaTs({"ok"})
    \/ (msgs_recebidas_counter < MaxMsgs /\ ReceberCritico(CriticalValidos, {"ok"}))
    \/ ReceberCriticoActive({"ok"})
    \/ ReceberCriticoCleared({"ok"})
    \/ (ciclos_counter < MaxCycles /\ IniciarCiclo)
    \/ LerSensores
    \/ AnalisarPOIs(FalhasImpacto, {"ok"})
    \/ Publicar(BOOLEAN, {"ok"})
    \/ Telemetria({"ok"})
    \/ (ciclos_counter < MaxCycles
            /\ Dormir({predicao_intervalo_segundos, SENSOR_DATA_TIMEOUT_SECONDS}))
    \/ PararLoopMQTT      \* after the AttributeError of line 551
    \/ Desconectar

SpecDecisao == Init /\ [][NextDecisao]_vars

\* Ingestion: water and rain messages of every shape (undecodable, JSON
\* that is no object, empty object, object with and without the category),
\* a database that can fail.
WaterIngestao ==
    { Invalid, JsonList, EmptyDict,
      Dict([level_category |-> "Baixo"]),
      Dict([level_category |-> "Alto"]) }
RainIngestao ==
    { Invalid, EmptyDict,
      Dict([intensity_category |-> "Pesada"]),
      Dict([battery |-> "ok"]) }

NextIngestao ==
    \/ CarregamentoInicial({GeoCompleto})
    \/ Conectar({TRUE})
    \/ (msgs_recebidas_counter < MaxMsgs /\ ReceberAgua(WaterIngestao))
    \/ ReceberAguaTs(DbOutcomes)
    \/ (msgs_recebidas_counter < MaxMsgs /\ ReceberChuva(RainIngestao))
    \/ ReceberChuvaTs(DbOutcomes)
    \/ (ciclos_counter < MaxCycles /\ IniciarCiclo)
    \/ LerAgua
    \/ LerChuva
    \/ Critico550      \* no critical alert is ever received: the flag reads false
    \/ AnalisarPOIs({{}}, {"ok"})
    \/ Publicar({TRUE}, {"ok"})
    \/ Telemetria({"ok"})
    \/ (ciclos_counter < MaxCycles
            /\ Dormir({predicao_intervalo_segundos, SENSOR_DATA_TIMEOUT_SECONDS}))
    \/ PararLoopMQTT      \* after the AttributeError of lines 531 and 541
    \/ Desconectar

SpecIngestao == Init /\ [][NextIngestao]_vars

\* Artifacts: the two files rewritten (well or badly) and removed under the
\* running hub, with the rain that makes a cycle classify.  The
\* loader reads the files at the top of an iteration only, so a change of a
\* file during an iteration is the same change before the sleep; messages
\* come between two iterations.
EntreCiclos == pc \in {"tick", "dormir"}

NextArtefatos ==
    \/ CarregamentoInicial({GeoCompleto})
    \/ Conectar({TRUE})
    \/ (EntreCiclos /\ file_ops < MaxFileOps /\ EscreverModelo)
    \/ (EntreCiclos /\ file_ops < MaxFileOps /\ EscreverScaler)
    \/ (EntreCiclos /\ file_ops < MaxFileOps /\ RemoverModelo)
    \/ (pc = "tick" /\ msgs_recebidas_counter < MaxMsgs
            /\ ReceberChuva({Dict([intensity_category |-> "Pesada"])}))
    \/ ReceberChuvaTs({"ok"})
    \/ (hpc = "idle" /\ ciclos_counter < MaxCyclesArtefatos /\ IniciarCiclo)
    \/ Agua530 \/ Agua535     \* no water reading is ever received
    \/ LerChuva
    \/ Critico550            \* no critical alert is ever received
    \/ AnalisarPOIs({{}}, {"ok"})
    \/ Publicar({TRUE}, {"ok"})
    \/ Telemetria({"ok"})
    \/ (ciclos_counter < MaxCyclesArtefatos
            /\ Dormir({predicao_intervalo_segundos, STATUS_LOG_INTERVAL_SECONDS + 5}))

SpecArtefatos == Init /\ [][NextArtefatos]_vars

\* Startup: a GeoPackage that is complete, lacks the roads or is missing, a
\* broker that accepts or refuses each connection attempt, and the water
\* level and rain that put POIs in combined high risk.
NextArranque ==
    \/ CarregamentoInicial(GeoPackages)
    \/ Conectar(BOOLEAN)
    \/ (msgs_recebidas_counter < MaxMsgs
            /\ ReceberAgua({Dict([level_category |-> "Alto"])}))
    \/ ReceberAguaTs({"ok"})
    \/ (msgs_recebidas_counter < MaxMsgs
            /\ ReceberChuva({Dict([intensity_category |-> "Pesada"])}))
    \/ ReceberChuvaTs({"ok"})
    \/ (ciclos_counter < MaxCycles /\ IniciarCiclo)
    \/ LerAgua
    \/ LerChuva
    \/ Critico550      \* no critical alert is ever received
    \/ AnalisarPOIs(FalhasImpacto, {"ok"})
    \/ Publicar({TRUE}, {"ok"})
    \/ Telemetria({"ok"})
    \/ (ciclos_counter < MaxCycles /\ Dormir({predicao_intervalo_segundos}))

SpecArranque == Init /\ [][NextArranque]_vars

\* Repetition: iterations one after the other, each recorded when it ends;
\* the messages of the three topics come between two iterations, so every
\* iteration reads one state of the sensors and of the critical alert.
NextRepeticao ==
    \/ CarregamentoInicial({GeoCompleto})
    \/ Conectar({TRUE})
    \/ (pc = "tick" /\ msgs_recebidas_counter < MaxMsgs
            /\ ReceberAgua({Dict([level_category |-> "Alto"])}))
    \/ ReceberAguaTs({"ok"})
    \/ (pc = "tick" /\ msgs_recebidas_counter < MaxMsgs
            /\ ReceberChuva({Dict([intensity_category |-> "Nenhuma"]),
                             Dict([intensity_category |-> "Pesada"])}))
    \/ ReceberChuvaTs({"ok"})
    \/ (pc = "tick" /\ msgs_recebidas_counter < MaxMsgs
            /\ ReceberCritico(CriticalValidos, {"ok"}))
    \/ ReceberCriticoActive({"ok"})
    \/ ReceberCriticoCleared({"ok"})
    \/ (hpc = "idle" /\ ciclos_counter < MaxCyclesRepeticao /\ IniciarCiclo)
    \/ LerSensores
    \/ AnalisarPOIs({{}}, {"ok"})
    \/ Publicar({TRUE}, {"ok"})
    \/ TelemetriaRegistada({"ok"})
    \/ (ciclos_counter < MaxCyclesRepeticao
            /\ Dormir({predicao_intervalo_segundos, SENSOR_DATA_TIMEOUT_SECONDS}))

SpecRepeticao == Init /\ [][NextRepeticao]_vars

\* Failures: payloads that do not decode on the three topics, a database
\* that can fail under the callbacks, a transport that is connected or not
\* when the command is published.  No critical alert is ever decoded: the
\* publisher is the only writer of AlertasEventosSistema.
NextFalhas ==
    \/ CarregamentoInicial({GeoCompleto})
    \/ Conectar({TRUE})
    \/ (msgs_recebidas_counter < MaxMsgs
            /\ ReceberAgua({Invalid, Dict([level_category |-> "Alto"])}))
    \/ ReceberAguaTs(DbOutcomes)
    \/ (msgs_recebidas_counter < MaxMsgs
            /\ ReceberChuva({Invalid, Dict([intensity_category |-> "Pesada"])}))
    \/ ReceberChuvaTs(DbOutcomes)
    \/ (msgs_recebidas_counter < MaxMsgs
            /\ ReceberCritico({Invalid, JsonList}, DbOutcomes))
    \/ (ciclos_counter < MaxCycles /\ IniciarCiclo)
    \/ LerAgua
    \/ LerChuva
    \/ Critico550      \* no critical alert is ever decoded: the flag reads false
    \/ AnalisarPOIs({{}}, {"ok"})
    \/ Publicar(BOOLEAN, {"ok"})
    \/ Telemetria({"ok"})
    \/ (ciclos_counter < MaxCycles /\ Dormir({predicao_intervalo_segundos}))

SpecFalhas == Init /\ [][NextFalhas]_vars

\* Shutdown: the loop interrupted wherever it is, or ended by the exception
\* a water payload that is a JSON list raises at line 531, with messages
\* arriving until the network thread stops.
NextEncerramento ==
    \/ CarregamentoInicial({GeoCompleto})
    \/ Conectar({TRUE})
    \/ (msgs_recebidas_counter < MaxMsgs
            /\ ReceberAgua({JsonList, Dict([level_category |-> "Alto"])}))
    \/ ReceberAguaTs({"ok"})
    \/ (ciclos_counter < MaxCycles /\ IniciarCiclo)
    \/ LerAgua
    \/ Chuva540 \/ Chuva545     \* no rain reading is ever received
    \/ Critico550              \* no critical alert is ever received
    \/ AnalisarPOIs({{}}, {"ok"})
    \/ Publicar({TRUE}, {"ok"})
    \/ Telemetria({"ok"})
    \/ (ciclos_counter < MaxCycles /\ Dormir({predicao_intervalo_segundos}))
    \/ Interromper
    \/ PararLoopMQTT
    \/ Desconectar

SpecEncerramento == Init /\ [][NextEncerramento]_vars

\* Race: two water readings, Baixo and then, at a later time, Alto; the
\* category names the message it came with, and so does the timestamp.  The
\* callback and the loop interleave freely.
NextCorrida ==
    \/ CarregamentoInicial({GeoCompleto})
    \/ Conectar({TRUE})
    \/ (latest_water_level_data = PyNone
            /\ ReceberAgua({Dict([level_category |-> "Baixo"])}))
    \/ (/\ latest_water_level_data = Dict([level_category |-> "Baixo"])
        /\ timestamp_last_water_data # None
        /\ now > timestamp_last_water_data[1]
        /\ ReceberAgua({Dict([level_category |-> "Alto"])}))
    \/ ReceberAguaTs({"ok"})
    \/ (ciclos_counter < MaxCycles /\ IniciarCiclo)
    \/ LerAgua
    \/ Chuva540 \/ Chuva545     \* no rain reading is ever received
    \/ Critico550              \* no critical alert is ever received
    \/ AnalisarPOIs({{}}, {"ok"})
    \/ Publicar({TRUE}, {"ok"})
    \/ Telemetria({"ok"})
    \/ (ciclos_counter < MaxCycles
            /\ Dormir({predicao_intervalo_segundos, SENSOR_DATA_TIMEOUT_SECONDS}))

SpecCorrida == Init /\ [][NextCorrida]_vars

\* Persistence: a database that can fail under the loop (no connection, or
\* an INSERT that raises), over three iterations far enough apart for two
\* snapshots of the counters; the readings come between two iterations.
NextPersistencia ==
    \/ CarregamentoInicial({GeoCompleto})
    \/ Conectar({TRUE})
    \/ (pc = "tick" /\ msgs_recebidas_counter < MaxMsgs
            /\ ReceberAgua({Dict([level_category |-> "Alto"])}))
    \/ ReceberAguaTs({"ok"})
    \/ (pc = "tick" /\ msgs_recebidas_counter < MaxMsgs
            /\ ReceberChuva({Dict([intensity_category |-> "Pesada"])}))
    \/ ReceberChuvaTs({"ok"})
    \/ (hpc = "idle" /\ ciclos_counter < MaxCyclesPersistencia /\ IniciarCiclo)
    \/ LerAgua
    \/ LerChuva
    \/ Critico550      \* no critical alert is ever received
    \/ AnalisarPOIs({{}}, DbOutcomes)
    \/ Publicar({TRUE}, DbOutcomes)
    \/ Telemetria(DbOutcomes)
    \/ (ciclos_counter < MaxCyclesPersistencia
            /\ Dormir({predicao_intervalo_segundos, STATUS_LOG_INTERVAL_SECONDS + 5}))

SpecPersistencia == Init /\ [][NextPersistencia]_vars

\* Critical alert: status messages of every kind (ACTIVE, CLEARED, another
\* status, no status), delivered between two iterations, rain of a known
\* category, of an unknown one and without category, and a database that can
\* fail under the callbacks.
RainCritico ==
    { Dict([intensity_category |-> "Nenhuma"]),
      Dict([intensity_category |-> "Leve"]),
      Dict([intensity_category |-> "Pesada"]),
      Dict([intensity_category |-> "Torrencial"]),
      Dict([battery |-> "ok"]) }
CriticalDesconhecidos == { Dict([status |-> "TESTING"]), EmptyDict }

NextCritico ==
    \/ CarregamentoInicial({GeoCompleto})
    \/ Conectar({TRUE})
    \/ (msgs_recebidas_counter < MaxMsgs /\ ReceberChuva(RainCritico))
    \/ ReceberChuvaTs(DbOutcomes)
    \/ (pc = "tick" /\ msgs_recebidas_counter < MaxMsgs
            /\ ReceberCritico(CriticalValidos \cup CriticalDesconhecidos, DbOutcomes))
    \/ ReceberCriticoActive(DbOutcomes)
    \/ ReceberCriticoCleared(DbOutcomes)
    \/ (ciclos_counter < MaxCycles /\ IniciarCiclo)
    \/ Agua530 \/ Agua535     \* no water reading is ever received
    \/ LerChuva
    \/ LerCritico
    \/ AnalisarPOIs({{}}, {"ok"})
    \/ Publicar({TRUE}, {"ok"})
    \/ Telemetria({"ok"})
    \/ (ciclos_counter < MaxCycles
            /\ Dormir({predicao_intervalo_segundos, SENSOR_DATA_TIMEOUT_SECONDS}))

SpecCritico == Init /\ [][NextCritico]_vars

\* Critical alert without artifacts: the alert is raised between two
\* iterations and never cleared, and the model file is removed under the
\* running hub, which looks at the files again after a minute.
NextSemArtefatos ==
    \/ CarregamentoInicial({GeoCompleto})
    \/ Conectar({TRUE})
    \/ (EntreCiclos /\ file_ops < MaxFileOps /\ RemoverModelo)
    \/ (pc = "tick" /\ msgs_recebidas_counter < MaxMsgs
            /\ ReceberCritico({Dict([status |-> "ACTIVE", distance_cm |-> "12"])},
                              {"ok"}))
    \/ ReceberCriticoActive({"ok"})
    \/ (hpc = "idle" /\ ciclos_counter < MaxCycles /\ IniciarCiclo)
    \/ Agua530 \/ Agua535     \* no water reading is ever received
    \/ Chuva540 \/ Chuva545   \* no rain reading is ever received
    \/ Critico550 \/ Critico551 \/ Critico551b \/ Prof572
    \/ AnalisarPOIs({{}}, {"ok"})
    \/ Publicar({TRUE}, {"ok"})
    \/ Telemetria({"ok"})
    \/ (ciclos_counter < MaxCycles
            /\ Dormir({predicao_intervalo_segundos, MODEL_CHECK_INTERVAL_SECONDS + 1}))

SpecSemArtefatos == Init /\ [][NextSemArtefatos]_vars

\* Recovery: the model file is removed under the running hub and, once the
\* hub has dropped the pair, written again (a first time badly, perhaps).
\* No message arrives.  The main thread keeps running: its steps are fair.
PassosRecuperacao ==
    \/ CarregamentoInicial({GeoCompleto})
    \/ Conectar({TRUE})
    \/ (ciclos_counter < MaxCyclesRecuperacao /\ IniciarCiclo)
    \/ Agua530 \/ Agua535     \* no water reading is ever received
    \/ Chuva540 \/ Chuva545   \* no rain reading is ever received
    \/ Critico550            \* no critical alert is ever received
    \/ AnalisarPOIs({{}}, {"ok"})
    \/ Publicar({TRUE}, {"ok"})
    \/ Telemetria({"ok"})
    \/ (ciclos_counter < MaxCyclesRecuperacao
            /\ Dormir({predicao_intervalo_segundos, MODEL_CHECK_INTERVAL_SECONDS + 1}))

NextRecuperacao ==
    \/ (EntreCiclos /\ file_ops < MaxFileOps /\ ml_model_instance # NoArtefato
            /\ RemoverModelo)
    \/ (EntreCiclos /\ file_ops < MaxFileOps /\ NoLoop
            /\ ml_model_instance = NoArtefato /\ EscreverModelo)
    \/ PassosRecuperacao

SpecRecuperacao ==
    Init /\ [][NextRecuperacao]_vars /\ WF_vars(PassosRecuperacao)

\* Alert race: rain of category Pesada received before an iteration, the
\* critical alert raised between two iterations, and cleared at any moment,
\* also while an iteration is between its reads of the alert (lines 550,
\* 551, 572 and 573).
NextAlertaCorrida ==
    \/ CarregamentoInicial({GeoCompleto})
    \/ Conectar({TRUE})
    \/ (pc = "tick" /\ latest_rainfall_data = PyNone
            /\ ReceberChuva({Dict([intensity_category |-> "Pesada"])}))
    \/ ReceberChuvaTs({"ok"})
    \/ (pc = "tick" /\ ~esp32_critical_alert_is_active
            /\ msgs_recebidas_counter < MaxMsgs + 1
            /\ ReceberCritico({Dict([status |-> "ACTIVE", distance_cm |-> "12"])},
                              {"ok"}))
    \/ ReceberCriticoActive({"ok"})
    \/ (esp32_critical_alert_is_active /\ msgs_recebidas_counter < MaxMsgs + 1
            /\ ReceberCritico({Dict([status |-> "CLEARED"])}, {"ok"}))
    \/ ReceberCriticoCleared({"ok"})
    \/ (ciclos_counter < MaxCycles /\ IniciarCiclo)
    \/ Agua530 \/ Agua535     \* no water reading is ever received
    \/ LerChuva
    \/ LerCritico
    \/ AnalisarPOIs({{}}, {"ok"})
    \/ Publicar({TRUE}, {"ok"})
    \/ Telemetria({"ok"})
    \/ (ciclos_counter < MaxCycles /\ Dormir({predicao_intervalo_segundos}))
    \/ PararLoopMQTT      \* after the AttributeError of line 551
    \/ Desconectar

SpecAlertaCorrida == Init /\ [][NextAlertaCorrida]_vars

(***************************************************************************)
(* Properties                                                              *)
(***************************************************************************)
\* The rows of the detailed analysis of the iteration in progress.
LinhaAltoRisco(l) == l.status_combinado_poi = "ALTO RISCO"

AlgumaLinhaAltoRisco ==
    \E k \in DOMAIN analise.linhas : LinhaAltoRisco(analise.linhas[k])

\* sensor_alert of a row, from the two categories the row records.
SensorAlert(l) ==
    \/ l.categoria_agua_sensor_no_ciclo \in {"Medio", "Alto"}
    \/ l.categoria_chuva_sensor_no_ciclo \in {"Moderada", "Pesada"}

\* The radius the water category selects.
RaioEsperado(categoria_agua) ==
    IF categoria_agua = "Alto" THEN 500
    ELSE IF categoria_agua = "Medio" THEN 300
    ELSE 200

\* C1: critical-alert override.  In every iteration whose read of the
\* critical flag (line 550) found it set, the decision of the iteration is
\* high risk from the analysis of the POIs on, and the command handed to the
\* publisher is high, whether or not a POI is in combined high risk.
C1_CriticalOverride ==
    /\ (pc \in {"pois", "publicar", "telemetria"} /\ critico_lido)
          => sistema_em_alto_risco_final
    /\ (pc = "telemetria" /\ critico_lido)
          => (comando.chamado /\ comando.risco)

\* C1, its case: the critical alert read as active, fresh rain of category
\* Nenhuma, no detailed analysis, and the command published is high.
C1_Witness ==
    /\ pc = "telemetria"
    /\ critico_lido
    /\ dados_chuva_atuais /\ categoria_chuva_display = "Nenhuma"
    /\ ~analise.feita
    /\ comando.chamado /\ comando.risco

\* C2: a POI is marked in combined high risk only if its geographic risk is
\* high and the sensors are in alert; and an iteration with no POI in
\* combined high risk and no critical alert read does not decide high risk.
C2_CombinedHighOnlyIfBoth ==
    /\ \A k \in DOMAIN analise.linhas :
          LET l == analise.linhas[k] IN
          LinhaAltoRisco(l) => (l.risco_geo_alto_bool /\ SensorAlert(l))
    /\ (pc \in {"publicar", "telemetria"} /\ ~AlgumaLinhaAltoRisco /\ ~critico_lido)
          => ~sistema_em_alto_risco_final

\* C2, its case: a detailed analysis with the sensors not in alert, a POI of
\* high geographic risk that is not in combined high risk, and a decision of
\* normal risk.
C2_Witness ==
    /\ pc = "publicar"
    /\ analise.feita
    /\ dados_agua_atuais
    /\ \E k \in DOMAIN analise.linhas :
          LET l == analise.linhas[k] IN
          /\ l.risco_geo_alto_bool
          /\ ~SensorAlert(l)
          /\ l.status_combinado_poi = "Risco Geo. ALTO, Condicoes Atuais OK"
    /\ \E k \in DOMAIN analise.linhas :
          ~analise.linhas[k].risco_geo_alto_bool
    /\ ~sistema_em_alto_risco_final

\* C3 as amended: in a detailed analysis with a fresh water reading, the
\* sensor alert of every POI is (water in {Medio, Alto}) or (rain in
\* {Moderada, Pesada}), and a POI of high geographic risk with rain Moderada
\* or Pesada is in combined high risk; with a water reading that is not
\* fresh (stale or never received) no POI is in combined high risk.
C3_SensorAlertFreshWater ==
    \A k \in DOMAIN analise.linhas :
        LET l == analise.linhas[k] IN
        /\ dados_agua_atuais =>
              /\ l.sensores_em_alerta <=> SensorAlert(l)
              /\ (/\ l.risco_geo_alto_bool
                  /\ l.categoria_chuva_sensor_no_ciclo \in {"Moderada", "Pesada"})
                    => LinhaAltoRisco(l)
        /\ ~dados_agua_atuais => ~LinhaAltoRisco(l)

\* C3, its case: a stale water reading of category Alto, fresh rain Pesada,
\* and a POI of high geographic risk that is not in combined high risk.
C3_Witness ==
    /\ pc = "publicar"
    /\ analise.feita
    /\ status_sensor_agua_obj = "Desatualizado"
    /\ categoria_agua_display = "Alto"
    /\ categoria_chuva_display = "Pesada"
    /\ \E k \in DOMAIN analise.linhas :
          LET l == analise.linhas[k] IN
          /\ l.risco_geo_alto_bool
          /\ l.status_combinado_poi = "Sensor Agua"
    /\ ~sistema_em_alto_risco_final

\* C3 as written: a POI of high geographic risk with rain Moderada or Pesada
\* is in combined high risk whatever the state of the water sensor.
C3_AsWritten ==
    \A k \in DOMAIN analise.linhas :
        LET l == analise.linhas[k] IN
        (/\ l.risco_geo_alto_bool
         /\ l.categoria_chuva_sensor_no_ciclo \in {"Moderada", "Pesada"})
            => LinhaAltoRisco(l)

\* C4: fusion rule.  The boolean handed to publicar_comando_alerta at the
\* end of an iteration is true iff the iteration read the critical alert as
\* active or marked at least one POI in combined high risk.
C4_FusionRule ==
    pc = "telemetria" =>
        /\ comando.chamado
        /\ comando.risco <=> (critico_lido \/ AlgumaLinhaAltoRisco)

\* C4, its case: no critical alert read, a POI in combined high risk, and
\* the command handed to the publisher is high.
C4_Witness ==
    /\ pc = "telemetria"
    /\ ~critico_lido
    /\ AlgumaLinhaAltoRisco
    /\ comando.chamado /\ comando.risco

\* C5: for every prediction, the geographic risk is high iff the probability
\* is at least 0.028 (280000 in units of 1e-7), the threshold included.
C5_ThresholdInclusive ==
    /\ PREDICTION_THRESHOLD = 280000
    /\ \A k \in DOMAIN analise.linhas :
          LET l == analise.linhas[k] IN
          l.risco_geo_alto_bool <=> (l.prob_geo_inundacao >= 280000)

\* C5, its case: one prediction exactly at the threshold, of high risk, and
\* one just below it, of low risk.
C5_Witness ==
    /\ analise.feita
    /\ \E k \in DOMAIN analise.linhas :
          /\ analise.linhas[k].prob_geo_inundacao = 280000
          /\ analise.linhas[k].risco_geo_alto_bool
    /\ \E k \in DOMAIN analise.linhas :
          /\ analise.linhas[k].prob_geo_inundacao = 279999
          /\ ~analise.linhas[k].risco_geo_alto_bool

\* C6: for every POI in combined high risk, the radius is 500 m for water
\* Alto, 300 m for water Medio and 200 m otherwise, whatever the rain; each
\* of the three layer queries that is made uses that radius, and the row
\* persisted for the POI records it.
C6_BufferRadius ==
    /\ \A k \in DOMAIN analise.linhas :
          LET l == analise.linhas[k]
              r == RaioEsperado(l.categoria_agua_sensor_no_ciclo)
          IN LinhaAltoRisco(l) =>
                /\ l.raio_buffer_impacto_m = r
                /\ \A imp \in {l.impacto_edificacoes, l.impacto_estradas,
                               l.impacto_rios} :
                      imp.txt # "indisponivel" => imp.raio = r
    /\ \A k \in DOMAIN AnalisesPOIs :
          LET l == AnalisesPOIs[k] IN
          LinhaAltoRisco(l) =>
              l.raio_buffer_impacto_m = RaioEsperado(l.categoria_agua_sensor_no_ciclo)

\* C6, its case: water Medio with rain Leve, a POI in combined high risk
\* whose three queries and persisted row all carry 300 m.
C6_Witness ==
    \E k \in DOMAIN AnalisesPOIs :
        LET l == AnalisesPOIs[k] IN
        /\ LinhaAltoRisco(l)
        /\ l.categoria_agua_sensor_no_ciclo = "Medio"
        /\ l.categoria_chuva_sensor_no_ciclo = "Leve"
        /\ l.raio_buffer_impacto_m = 300
        /\ l.impacto_edificacoes.raio = 300
        /\ l.impacto_estradas.raio = 300
        /\ l.impacto_rios.raio = 300
        /\ l \in {analise.linhas[j] : j \in DOMAIN analise.linhas}

\* C7 as written: when the evaluation of the two sensors is done (line 550
\* is next), each sensor has one of the three statuses no-communication,
\* stale, fresh.
C7_ThreeStatuses ==
    pc = "critico550" =>
        /\ status_sensor_agua_obj \in {"Sem Comunicacao", "Desatualizado", "Atual"}
        /\ status_sensor_chuva_obj \in {"Sem Comunicacao", "Desatualizado", "Atual"}

\* C8: last write wins.  The step that ends the handling of a water (rain)
\* message leaves the water (rain) state holding that message's payload and
\* the time of its receipt, and leaves the state of the other kind alone;
\* the water (rain) state changes in no step but those of its own callback.
C8_LastWriteWins ==
    [][ /\ (hpc = "agua_ts" /\ hpc' = "idle") =>
              /\ latest_water_level_data' = hmsg
              /\ timestamp_last_water_data' = Some(now)
              /\ UNCHANGED rainVars
        /\ (hpc = "chuva_ts" /\ hpc' = "idle") =>
              /\ latest_rainfall_data' = hmsg
              /\ timestamp_last_rain_data' = Some(now)
              /\ UNCHANGED waterVars
        /\ (waterVars' # waterVars) => ("agua_ts" \in {hpc, hpc'})
        /\ (rainVars' # rainVars) => ("chuva_ts" \in {hpc, hpc'})
      ]_vars

\* C8, its case: a rain message handled, then at a later time a water
\* message: the water state holds the water message and its time,
\* the rain state still holds the rain message and its earlier time.
C8_Witness ==
    /\ hpc = "idle"
    /\ msgs_recebidas_counter = 2
    /\ latest_water_level_data = Dict([level_category |-> "Alto"])
    /\ timestamp_last_water_data = Some(now)
    /\ latest_rainfall_data = Dict([intensity_category |-> "Pesada"])
    /\ timestamp_last_rain_data # None
    /\ timestamp_last_rain_data # Some(now)

\* C9: artifact pair.  In every state the model and the scaler are both
\* null or both of the same load, the recorded load time is null exactly
\* when the pair is null, and every prediction of an iteration is made by
\* the pair of one load.
C9_ArtifactPair ==
    /\ (ml_model_instance = NoArtefato) <=> (scaler_instance = NoArtefato)
    /\ ml_model_instance.carga = scaler_instance.carga
    /\ (timestamp_artefatos_carregados = None) <=> (ml_model_instance = NoArtefato)
    /\ \A k \in DOMAIN analise.linhas :
          /\ ml_model_instance # NoArtefato
          /\ analise.linhas[k].carga = ml_model_instance.carga
          /\ analise.linhas[k].carga = scaler_instance.carga

\* C9, its case: after the initial load and a successful reload of a
\* rewritten model file, an iteration has classified with the pair of the
\* second load.
C9_Witness ==
    /\ pc = "publicar"
    /\ analise.feita
    /\ n_cargas = 2
    /\ ml_model_instance.carga = 2
    /\ ml_model_instance.ver = 2
    /\ scaler_instance.carga = 2
    /\ \A k \in DOMAIN analise.linhas : analise.linhas[k].carga = 2

\* The check of the files is due at the top of the iteration (line 515).
VerificacaoDevida ==
    (now - last_artefatos_check_time) > MODEL_CHECK_INTERVAL_SECONDS

\* A reload at the top of the iteration fails: a file is missing, or a load
\* is attempted (no pair, or a newer model file) with a file that does not
\* deserialize.
RecargaFalha ==
    /\ VerificacaoDevida
    /\ \/ ~model_file.existe
       \/ ~scaler_file.existe
       \/ /\ \/ timestamp_artefatos_carregados = None
             \/ model_file.mtime > timestamp_artefatos_carregados[1]
          /\ ~(model_file.ok /\ scaler_file.ok)

\* C10: a reload that fails at the top of an iteration leaves the pair
\* null; an iteration that starts with a null pair after its check goes to
\* the sleep with no classification, no analysis and no command, and main()
\* goes on; the pair stays null until a due check loads both files.
C10_SkipWithoutArtifacts ==
    [][ /\ (pc = "tick" /\ pc' # "tick") =>
              /\ RecargaFalha =>
                    (ml_model_instance' = NoArtefato /\ scaler_instance' = NoArtefato)
              /\ (ml_model_instance' = NoArtefato) =>
                    /\ pc' = "dormir"
                    /\ UNCHANGED <<analise, comando, AnalisesPOIs,
                                   AlertasEventosSistema, alertas_enviados_counter>>
                    /\ ~analise.feita /\ ~comando.chamado
              /\ (ml_model_instance = NoArtefato /\ ml_model_instance' # NoArtefato) =>
                    /\ VerificacaoDevida
                    /\ model_file.ok /\ scaler_file.ok
                    /\ ml_model_instance'.carga = n_cargas + 1
                    /\ scaler_instance'.carga = n_cargas + 1
        /\ (pc # "tick" /\ pc # "inicio") => UNCHANGED artVars
        /\ (ml_model_instance' = NoArtefato /\ pc' \notin {"inicio", "fim_artefatos"})
              => pc' \in {"tick", "dormir"}
      ]_vars

\* C10, its case: the hub entered the loop with a loaded pair, a reload
\* failed, and a later iteration with no check due has skipped too.
C10_Witness ==
    /\ pc = "dormir"
    /\ n_cargas = 1
    /\ ml_model_instance = NoArtefato
    /\ scaler_instance = NoArtefato
    /\ timestamp_artefatos_carregados = None
    /\ ciclos_counter >= 2
    /\ last_artefatos_check_time < current_loop_time
    /\ ~analise.feita /\ ~comando.chamado

\* C11: a geo layer is assigned at startup only, and every impact
\* assessment of a POI in combined high risk against a layer that is absent
\* returns the unavailable message of that layer with no query made.
C11_AbsentLayerStaysAbsent ==
    [][ /\ (pc # "inicio") => UNCHANGED geoVars
        /\ \A k \in DOMAIN analise'.linhas :
              LET l == analise'.linhas[k] IN
              LinhaAltoRisco(l) =>
                  /\ ~edificios_gdf_metric' =>
                        l.impacto_edificacoes = ImpactoSemConsulta("indisponivel")
                  /\ ~estradas_gdf_metric' =>
                        l.impacto_estradas = ImpactoSemConsulta("indisponivel")
                  /\ ~rios_gdf_metric' =>
                        l.impacto_rios = ImpactoSemConsulta("indisponivel")
      ]_vars

\* C11, its case: in the second iteration, the roads absent since startup
\* and the buildings loaded, a POI in combined high risk has the unavailable
\* message for the roads and a queried result for the buildings.
C11_Witness ==
    /\ ciclos_counter = 2
    /\ ~estradas_gdf_metric /\ edificios_gdf_metric
    /\ \E k \in DOMAIN analise.linhas :
          LET l == analise.linhas[k] IN
          /\ LinhaAltoRisco(l)
          /\ l.impacto_estradas.txt = "indisponivel"
          /\ l.impacto_edificacoes.txt = "resumo"

\* C16: connection lifecycle.  At most 3 attempts; a failed attempt that is
\* not the last waits 10 s and tries again; the third failure ends main()
\* with no wait, no iteration, no message handled and nothing published; a
\* success starts the loops at once; outside the startup no step connects.
C16_ConnectionLifecycle ==
    [][ /\ attempt' <= 3
        /\ (attempt' # attempt /\ pc = "conectar") =>
              /\ attempt < 3
              /\ attempt' = attempt + 1
              /\ now' = now + 10
              /\ pc' = "conectar"
        /\ (pc = "conectar" /\ pc' = "fim_mqtt") => (attempt = 3 /\ now' = now)
        /\ (pc = "conectar" /\ pc' = "tick") => (now' = now /\ attempt' = attempt)
        /\ (pc = "conectar") => pc' \in {"conectar", "tick", "fim_mqtt"}
        /\ (pc \notin {"inicio", "conectar"}) =>
              (pc' # "conectar" /\ attempt' = attempt)
        /\ (pc' \in {"conectar", "fim_mqtt"}) =>
              /\ ciclos_counter' = 0
              /\ msgs_recebidas_counter' = 0
              /\ hpc' = "idle"
              /\ ~comando'.chamado
              /\ AlertasEventosSistema'.n = 0
        /\ (pc = "fim_mqtt") => (pc' = "fim_mqtt")
      ]_vars

\* C16, its case: three attempts failed, two waits of 10 s were made, and
\* main() has returned with no iteration run.
C16_Witness ==
    /\ pc = "fim_mqtt"
    /\ attempt = 3
    /\ now = 21
    /\ ciclos_counter = 0
    /\ ~comando.chamado

\* C17: when the initial load fails (a file missing or not deserializable)
\* main() returns at once: no connection attempt, no message handled, no
\* iteration, and nothing follows.
C17_InitialLoadFatal ==
    [][ /\ (/\ pc = "inicio" /\ pc' # "inicio"
            /\ ~(/\ model_file.existe /\ model_file.ok
                 /\ scaler_file.existe /\ scaler_file.ok))
              => pc' = "fim_artefatos"
        /\ (pc' = "fim_artefatos") =>
              /\ attempt' = 0
              /\ msgs_recebidas_counter' = 0
              /\ hpc' = "idle"
              /\ ciclos_counter' = 0
              /\ ~comando'.chamado
        /\ (pc = "fim_artefatos") => (pc' = "fim_artefatos")
      ]_vars

\* C17, its case: the model file is there and the scaler does not
\* deserialize; main() has returned before any connection attempt.
C17_Witness ==
    /\ pc = "fim_artefatos"
    /\ model_file.existe /\ model_file.ok
    /\ scaler_file.existe /\ ~scaler_file.ok
    /\ attempt = 0
    /\ ml_model_instance = NoArtefato

\* C12: end-to-end high scenario.  An iteration that read water Alto
\* (fresh), rain Pesada (fresh) and no critical alert has made the detailed
\* analysis; the POI of probability 0.05 is of high geographic risk, with
\* the sensors in alert, in combined high risk, with 500 m in its row as
\* analysed and as persisted; the decision is high risk and the command
\* handed to the publisher, and sent when the transport is connected, is
\* high.
C12_HighScenario ==
    (/\ pc = "telemetria"
     /\ dados_agua_atuais /\ categoria_agua_display = "Alto"
     /\ dados_chuva_atuais /\ categoria_chuva_display = "Pesada"
     /\ ~critico_lido)
    => /\ analise.feita
       /\ \E k \in DOMAIN analise.linhas :
             analise.linhas[k].prob_geo_inundacao = 500000
       /\ \A k \in DOMAIN analise.linhas :
             LET l == analise.linhas[k] IN
             l.prob_geo_inundacao = 500000 =>
                 /\ l.risco_geo_alto_bool
                 /\ l.sensores_em_alerta
                 /\ LinhaAltoRisco(l)
                 /\ l.raio_buffer_impacto_m = 500
                 /\ k \in DOMAIN AnalisesPOIs
                 /\ AnalisesPOIs[k].raio_buffer_impacto_m = 500
                 /\ LinhaAltoRisco(AnalisesPOIs[k])
       /\ sistema_em_alto_risco_final
       /\ comando.chamado /\ comando.risco

\* C12, its case: that iteration, with the transport connected and the
\* command high sent.
C12_Witness ==
    /\ pc = "telemetria"
    /\ dados_agua_atuais /\ categoria_agua_display = "Alto"
    /\ dados_chuva_atuais /\ categoria_chuva_display = "Pesada"
    /\ ~critico_lido
    /\ comando.enviado /\ comando.risco
    /\ AlertasEventosSistema.ultima # <<>>
    /\ AlertasEventosSistema.ultima[1].nivel_ou_status_evento = "high"

\* C13: end-to-end calm scenario.  An iteration that read fresh rain of
\* category Nenhuma and no critical alert makes no detailed analysis (no
\* prediction, no impact query, no row), gives the POIs the simplified
\* status, decides normal risk and hands the publisher a normal command,
\* whatever the water category.
C13_CalmScenario ==
    (/\ pc \in {"publicar", "telemetria"}
     /\ dados_chuva_atuais /\ categoria_chuva_display = "Nenhuma"
     /\ ~critico_lido)
    => /\ ~mostrar_analise_detalhada_pois
       /\ ~analise.feita
       /\ analise.linhas = <<>>
       /\ AnalisesPOIs = <<>>
       /\ mensagem_pois_simplificada = "chuva nenhuma"
       /\ ~sistema_em_alto_risco_final
       /\ (pc = "telemetria") => (comando.chamado /\ ~comando.risco)

\* C13, its case: fresh water Alto with fresh rain Nenhuma, and the command
\* normal sent.
C13_Witness ==
    /\ pc = "telemetria"
    /\ dados_agua_atuais /\ categoria_agua_display = "Alto"
    /\ dados_chuva_atuais /\ categoria_chuva_display = "Nenhuma"
    /\ ~critico_lido
    /\ ~analise.feita
    /\ comando.chamado /\ comando.enviado /\ ~comando.risco

\* C14: determinism of the cycle.  An iteration that saw the same sensor
\* readings, the same critical alert, the same loaded pair and the same POIs
\* as an iteration before it gives every POI the same probability and the
\* same geographic risk, marks the same POIs in combined high risk and
\* publishes the same command, whatever the iterations between them did.
C14_CycleDeterminism ==
    pc = "telemetria" =>
        \A c \in ciclos_anteriores :
            c.snapshot = SnapshotCiclo => c.resultado = ResultadoCiclo

\* C14, its case: the third iteration saw what an iteration before it saw,
\* both analysed the four POIs and marked some in combined high risk.
C14_Witness ==
    /\ pc = "telemetria"
    /\ analise.feita
    /\ DOMAIN ResultadoCiclo.pois = POIs
    /\ ResultadoCiclo.alto # {}
    /\ \E c \in ciclos_anteriores :
          /\ c.snapshot = SnapshotCiclo
          /\ c.resultado = ResultadoCiclo

\* C15: payload decode failure.  A callback of any of the three topics whose
\* payload does not decode adds one to the message counter, leaves the last
\* readings, their timestamps, the critical alert and the four tables as
\* they were, and returns: the callback thread is idle again and the
\* decision loop is where it was.
C15_DecodeFailureDropped ==
    [][(\/ ReceberAgua({Invalid})
        \/ ReceberChuva({Invalid})
        \/ ReceberCritico({Invalid}, DbOutcomes))
       => /\ msgs_recebidas_counter' = msgs_recebidas_counter + 1
          /\ UNCHANGED <<waterVars, rainVars, critVars, dbVars>>
          /\ hpc' = "idle" /\ hmsg' = PyNone
          /\ pc' = pc]_vars

\* C15, its case: two messages received, one a water reading stored and
\* inserted, the other dropped.
C15_Witness ==
    /\ msgs_recebidas_counter = 2
    /\ hpc = "idle"
    /\ latest_water_level_data = Dict([level_category |-> "Alto"])
    /\ timestamp_last_water_data # None
    /\ LeiturasSensores.n = 1
    /\ latest_rainfall_data = PyNone
    /\ timestamp_last_rain_data = None
    /\ ~esp32_critical_alert_is_active
    /\ AlertasEventosSistema = TabelaVazia

\* C18: the publisher is at most once and best effort.  The call at line 677
\* publishes only if the transport said it was connected; if it was not,
\* nothing is sent and no event is inserted; the call always returns to the
\* loop, which goes on to the telemetry, the sleep and the next tick; what a
\* call did not send no later step sends.
C18_PublisherBestEffort ==
    [][/\ (pc = "publicar" /\ pc' # pc) =>
             /\ pc' = "telemetria"
             /\ comando'.chamado
             /\ comando'.enviado => comando'.conectado
             /\ ~comando'.conectado =>
                   /\ ~comando'.enviado
                   /\ AlertasEventosSistema' = AlertasEventosSistema
       /\ (pc # "publicar" /\ ~comando.enviado) => ~comando'.enviado
       /\ (pc = "telemetria" /\ pc' # pc) => pc' = "dormir"
       /\ (pc = "dormir" /\ pc' # pc) => pc' = "tick"]_vars

\* C18, its case: the second iteration decided high risk, the transport was
\* disconnected at both calls, and nothing was sent or inserted.
C18_Witness ==
    /\ pc = "telemetria"
    /\ ciclos_counter = 2
    /\ comando.chamado /\ comando.risco
    /\ ~comando.conectado /\ ~comando.enviado
    /\ AlertasEventosSistema = TabelaVazia

\* C19 as written: every call of the publisher inserts one event with the
\* level and the payload of the call, connected or not.  Where the publisher
\* is the only writer of AlertasEventosSistema and every iteration calls it,
\* the table has one row for each iteration and its last row is the command
\* of the iteration.
C19_EveryCommandPersisted ==
    pc = "telemetria" =>
        LET nivel == IF comando.risco THEN "high" ELSE "normal" IN
        /\ AlertasEventosSistema.n = ciclos_counter
        /\ AlertasEventosSistema.ultima # <<>>
        /\ AlertasEventosSistema.ultima[1].nivel_ou_status_evento = nivel
        /\ AlertasEventosSistema.ultima[1].detalhes = Dict([system_risk |-> nivel])

\* C20 as written: once the decision loop runs, nothing but an interrupt
\* ends it.
C20_LoopNeverStops == pc # "fim_erro"

\* C27: shutdown.  Once the loop is left, by KeyboardInterrupt or by an
\* exception, no iteration starts and nothing is published or inserted as a
\* command; the network thread is stopped first (a callback in progress
\* ends, then no message is delivered), the transport is disconnected after
\* it, and main() has returned for good; main() leaves the loop no other way.
C27_Shutdown ==
    [][/\ (pc \in {"finally_erro", "finally_interrupcao", "loop_parado_erro",
                   "loop_parado_interrupcao", "fim_erro", "fim_interrupcao"})
             => /\ ciclos_counter' = ciclos_counter
                /\ comando' = comando
                /\ alertas_enviados_counter' = alertas_enviados_counter
                /\ AlertasEventosSistema' = AlertasEventosSistema
                /\ ~NoLoop'
       /\ (pc = "finally_interrupcao" /\ pc' # pc) => pc' = "loop_parado_interrupcao"
       /\ (pc = "finally_erro" /\ pc' # pc) => pc' = "loop_parado_erro"
       /\ (pc' \in {"loop_parado_erro", "loop_parado_interrupcao"}) => hpc' = "idle"
       /\ (pc \in {"loop_parado_erro", "loop_parado_interrupcao"})
             => /\ UNCHANGED <<handlerVars, waterVars, rainVars, critVars, dbVars>>
                /\ pc' = IF pc = "loop_parado_erro" THEN "fim_erro"
                         ELSE "fim_interrupcao"
       /\ (pc' = "fim_interrupcao" /\ pc' # pc) => pc = "loop_parado_interrupcao"
       /\ (pc' = "fim_erro" /\ pc' # pc) => pc = "loop_parado_erro"
       /\ (pc \in {"fim_erro", "fim_interrupcao"}) => UNCHANGED vars
       /\ (NoLoop /\ ~NoLoop') => pc' \in {"finally_erro", "finally_interrupcao"}]_vars

\* C27, its case: the first iteration interrupted after it read a fresh water
\* level and before it published; two messages were received, main() has
\* returned.
C27_Witness ==
    /\ pc = "fim_interrupcao"
    /\ ciclos_counter = 1
    /\ dados_agua_atuais
    /\ ~comando.chamado
    /\ msgs_recebidas_counter = 2
    /\ hpc = "idle"

\* C21 as written: an iteration reads the category and the timestamp of one
\* message.  Where Alto comes with the second message only, an iteration that
\* read Alto and found the reading out of date has read the timestamp of the
\* second message: that message is handled and is as old as the timeout.
C21_ReadingOfOneMessage ==
    (categoria_agua_display = "Alto" /\ status_sensor_agua_obj = "Desatualizado")
        => /\ hpc = "idle"
           /\ timestamp_last_water_data # None
           /\ current_loop_time - timestamp_last_water_data[1]
                  >= SENSOR_DATA_TIMEOUT_SECONDS

\* C22: the counters are monotonic.  No step lowers the counter of cycles,
\* of messages or of alerts; the counter of messages moves by one and only
\* when a callback starts, the counter of cycles by one and only at the top
\* of the loop; a snapshot inserted in StatusHub carries the counters as they
\* are, none below the snapshot before it.
C22_CountersMonotonic ==
    [][/\ ciclos_counter' >= ciclos_counter
       /\ msgs_recebidas_counter' >= msgs_recebidas_counter
       /\ alertas_enviados_counter' >= alertas_enviados_counter
       /\ (msgs_recebidas_counter' # msgs_recebidas_counter)
             => (hpc = "idle" /\ pc' = pc
                 /\ msgs_recebidas_counter' = msgs_recebidas_counter + 1)
       /\ (hpc = "idle" /\ hpc' # "idle")
             => msgs_recebidas_counter' = msgs_recebidas_counter + 1
       /\ (ciclos_counter' # ciclos_counter)
             => (pc = "tick" /\ ciclos_counter' = ciclos_counter + 1)
       /\ (pc = "tick" /\ pc' \in {"agua530", "dormir"})
             => ciclos_counter' = ciclos_counter + 1
       /\ (alertas_enviados_counter' # alertas_enviados_counter)
             => (pc = "publicar" /\ sistema_em_alto_risco_final
                 /\ alertas_enviados_counter' = alertas_enviados_counter + 1)
       /\ (StatusHub' # StatusHub) =>
             LET novo == StatusHub'.ultima[1] IN
             /\ novo.ciclos_decisao_executados = ciclos_counter
             /\ novo.mensagens_mqtt_recebidas = msgs_recebidas_counter
             /\ novo.alertas_sistema_enviados = alertas_enviados_counter
             /\ StatusHub.ultima # <<>> =>
                   LET antes == StatusHub.ultima[1] IN
                   /\ novo.uptime_segundos >= antes.uptime_segundos
                   /\ novo.ciclos_decisao_executados >= antes.ciclos_decisao_executados
                   /\ novo.mensagens_mqtt_recebidas >= antes.mensagens_mqtt_recebidas
                   /\ novo.alertas_sistema_enviados >= antes.alertas_sistema_enviados
      ]_vars

\* C22, its case: two snapshots inserted, the second after two messages,
\* three iterations and one high command.
C22_Witness ==
    /\ StatusHub.n = 2
    /\ StatusHub.ultima[1].ciclos_decisao_executados = 3
    /\ StatusHub.ultima[1].mensagens_mqtt_recebidas = 2
    /\ StatusHub.ultima[1].alertas_sistema_enviados = 1

C26_ImpactFailureIsolated ==
    \A k \in DOMAIN analise.linhas :
        LET l == analise.linhas[k]
            predicoes == realizar_predicoes_geograficas_pois(
                             ml_model_instance, scaler_instance, PREDICTION_THRESHOLD)
        IN
        /\ LinhaAltoRisco(l) =>
              \A imp \in {l.impacto_edificacoes, l.impacto_estradas, l.impacto_rios} :
                  imp.txt \in {"erro", "nenhuma", "resumo", "indisponivel"}
        /\ (l.impacto_estradas.txt = "erro") =>
              /\ l.impacto_estradas =
                     [txt |-> "erro",
                      raio |-> RaioEsperado(l.categoria_agua_sensor_no_ciclo),
                      n |-> 0]
              /\ LinhaAltoRisco(l)
              /\ l.impacto_edificacoes =
                     avaliar_impacto_edificacoes(k, categoria_agua_display, FALSE)
              /\ l.impacto_rios =
                     avaliar_impacto_rios(k, categoria_agua_display, FALSE)
              /\ DOMAIN analise.linhas = POIs
              /\ \A j \in POIs \ {k} :
                    analise.linhas[j] = AnalisePOI(predicoes[j], {})
              /\ sistema_em_alto_risco_final
              /\ pc \in {"publicar", "telemetria"}
              /\ (pc = "telemetria") => (comando.chamado /\ comando.risco)

\* C26, its case: the roads of POI 1 failed, its buildings and rivers are
\* summarised, POI 2 is in combined high risk with its roads assessed, and
\* the high command is sent.
C26_Witness ==
    /\ pc = "telemetria"
    /\ analise.feita
    /\ analise.linhas[1].impacto_estradas.txt = "erro"
    /\ analise.linhas[1].impacto_edificacoes.txt = "resumo"
    /\ analise.linhas[1].impacto_rios.txt = "resumo"
    /\ LinhaAltoRisco(analise.linhas[2])
    /\ analise.linhas[2].impacto_estradas.txt \in {"nenhuma", "resumo"}
    /\ comando.enviado /\ comando.risco

\* C23: transitions of the critical alert.  A status message ACTIVE sets the
\* flag and, when its callback ends, the message is the details; CLEARED
\* clears the flag and, when its callback ends, the details are None; a
\* message with another status or without status leaves both as they were;
\* no step of the rain callback or of the loop writes either.
C23_CriticalTransitions ==
    [][/\ ReceberCritico({Dict([status |-> "ACTIVE", distance_cm |-> "12"])},
                         DbOutcomes)
             => /\ esp32_critical_alert_is_active'
                /\ hpc' = "critico_active"
                /\ hmsg' = Dict([status |-> "ACTIVE", distance_cm |-> "12"])
       /\ (hpc = "critico_active" /\ hpc' # hpc)
             => /\ esp32_critical_alert_is_active'
                /\ esp32_critical_alert_details' = hmsg
                /\ hpc' = "idle"
       /\ ReceberCritico({Dict([status |-> "CLEARED"])}, DbOutcomes)
             => /\ ~esp32_critical_alert_is_active'
                /\ hpc' = "critico_cleared"
       /\ (hpc = "critico_cleared" /\ hpc' # hpc)
             => /\ ~esp32_critical_alert_is_active'
                /\ esp32_critical_alert_details' = PyNone
                /\ hpc' = "idle"
       /\ ReceberCritico(CriticalDesconhecidos, DbOutcomes)
             => (UNCHANGED critVars /\ hpc' = "idle")
       /\ (critVars' # critVars)
             => \/ (hpc = "idle" /\ hpc' \in {"critico_active", "critico_cleared"})
                \/ hpc \in {"critico_active", "critico_cleared"}]_vars

\* C23, its case: ACTIVE, then a message of status TESTING: the alert is
\* active with the first message as details, and the second was persisted as
\* DESCONHECIDO.
C23_Witness ==
    /\ hpc = "idle"
    /\ msgs_recebidas_counter = 2
    /\ esp32_critical_alert_is_active
    /\ esp32_critical_alert_details = Dict([status |-> "ACTIVE", distance_cm |-> "12"])
    /\ AlertasEventosSistema.n = 2
    /\ AlertasEventosSistema.ultima[1].nivel_ou_status_evento = "DESCONHECIDO"

\* C24: a persistence failure in a callback.  The second half of a callback
\* ends with the state updated and the callback thread idle whatever the
\* database did: the rain reading keeps its payload and gets its timestamp,
\* the critical alert its flag and its details, also when the tables are
\* left as they were; the loop is where it was.
C24_HandlerSurvivesPersistence ==
    [][(hpc # "idle" /\ hpc' # hpc) =>
          /\ hpc' = "idle"
          /\ pc' = pc
          /\ (hpc = "chuva_ts") =>
                /\ latest_rainfall_data' = hmsg
                /\ timestamp_last_rain_data' = Some(now)
          /\ (hpc = "critico_active") =>
                /\ esp32_critical_alert_is_active'
                /\ esp32_critical_alert_details' = hmsg
          /\ (hpc = "critico_cleared") =>
                /\ ~esp32_critical_alert_is_active'
                /\ esp32_critical_alert_details' = PyNone]_vars

\* C24, its case: a rain reading and an ACTIVE status handled with the
\* database failing both times: both are in the state, no table has a row.
C24_Witness ==
    /\ hpc = "idle"
    /\ msgs_recebidas_counter = 2
    /\ latest_rainfall_data = Dict([intensity_category |-> "Leve"])
    /\ timestamp_last_rain_data # None
    /\ esp32_critical_alert_is_active
    /\ esp32_critical_alert_details # PyNone
    /\ LeiturasSensores = TabelaVazia
    /\ AlertasEventosSistema = TabelaVazia

\* C28: depth of the analysis without critical alert.  An iteration that
\* read the alert as not active analyses the POIs iff the rain is fresh and
\* its category is Leve, Moderada or Pesada; otherwise (rain never received,
\* out of date, Nenhuma, any other category or none) it does not, and its
\* decision is normal.
C28_DepthWithoutCritical ==
    (pc \in {"publicar", "telemetria"} /\ ~critico_lido) =>
        /\ analise.feita <=>
              (/\ dados_chuva_atuais
               /\ categoria_chuva_display \in {"Leve", "Moderada", "Pesada"})
        /\ ~analise.feita =>
              /\ ~sistema_em_alto_risco_final
              /\ mensagem_pois_simplificada # ""
              /\ (pc = "telemetria") => (comando.chamado /\ ~comando.risco)

\* C28, its case: a fresh rain reading of category Torrencial, no critical
\* alert: the simplified status for an uncertain state, a normal command.
C28_Witness ==
    /\ pc = "telemetria"
    /\ ~critico_lido
    /\ dados_chuva_atuais
    /\ categoria_chuva_display = "Torrencial"
    /\ ~analise.feita
    /\ mensagem_pois_simplificada = "chuva incerta"
    /\ comando.chamado /\ ~comando.risco

\* C29 as written: an iteration that read the critical alert as active
\* analyses the POIs iff the rain is fresh and its category is Leve, Moderada
\* or Pesada.
C29_DepthUnderCritical ==
    (pc \in {"publicar", "telemetria"} /\ critico_lido) =>
        (analise.feita <=>
            (/\ dados_chuva_atuais
             /\ categoria_chuva_display \in {"Leve", "Moderada", "Pesada"}))

\* C30 as written: while the critical alert is active every tick ends with
\* the high command handed to the publisher, whatever the artifact pair: a
\* tick that starts with the alert active goes on to the sensors, and an
\* iteration that read the alert as active has called the publisher with
\* high when it ends.
C30_CriticalTickPublishesHigh ==
    [][/\ (pc = "tick" /\ esp32_critical_alert_is_active /\ pc' # pc)
             => pc' = "agua530"
       /\ (pc = "telemetria" /\ critico_lido /\ pc' # pc)
             => (comando.chamado /\ comando.risco)]_vars

ImpactoAvaliado(info) == info.txt # "---"

\* C32: the impact assessment is for the POIs in combined high risk only.
\* In the rows of a detailed analysis, a POI in combined high risk has the
\* results of the three impact functions; any other POI has the three
\* placeholders, no query made, and the default radius of 200 m, whatever
\* the water category, Medio and Alto included.
C32_ImpactOnlyCombinedHigh ==
    \A k \in DOMAIN analise.linhas :
        LET l == analise.linhas[k] IN
        /\ LinhaAltoRisco(l) <=> ImpactoAvaliado(l.impacto_edificacoes)
        /\ LinhaAltoRisco(l) <=> ImpactoAvaliado(l.impacto_estradas)
        /\ LinhaAltoRisco(l) <=> ImpactoAvaliado(l.impacto_rios)
        /\ ~LinhaAltoRisco(l) =>
              /\ l.impacto_edificacoes = ImpactoSemConsulta("---")
              /\ l.impacto_estradas = ImpactoSemConsulta("---")
              /\ l.impacto_rios = ImpactoSemConsulta("---")
              /\ l.raio_buffer_impacto_m = 200

\* A fresh water reading Alto with one POI in combined high risk, assessed
\* on the three layers with 500 m, and another that is not, with 200 m.
C32_Witness ==
    /\ pc = "publicar"
    /\ dados_agua_atuais
    /\ categoria_agua_display = "Alto"
    /\ \E k \in DOMAIN analise.linhas :
          /\ LinhaAltoRisco(analise.linhas[k])
          /\ analise.linhas[k].impacto_edificacoes.raio = 500
          /\ analise.linhas[k].impacto_estradas.raio = 500
          /\ analise.linhas[k].impacto_rios.raio = 500
    /\ \E k \in DOMAIN analise.linhas :
          /\ analise.linhas[k].status_combinado_poi = "BAIXO RISCO"
          /\ analise.linhas[k].raio_buffer_impacto_m = 200

\* The loader is called in this step: the initial load of main(), or the
\* check that is due at the top of an iteration.
ChamadaDoCarregador ==
    \/ (pc = "inicio" /\ pc' # "inicio")
    \/ (pc = "tick" /\ pc' # "tick" /\ VerificacaoDevida)

\* The pair is null, or the model file is newer than the recorded load.
RecargaNecessaria ==
    \/ ml_model_instance = NoArtefato
    \/ scaler_instance = NoArtefato
    \/ /\ timestamp_artefatos_carregados # None
       /\ model_file.mtime > timestamp_artefatos_carregados[1]

\* C33: the freshness check.  When the loader is called with both files
\* present, it loads the two files exactly when the pair is null or the
\* modification time of the model file is strictly greater than the recorded
\* one; otherwise the model, the scaler and the recorded time stay as they
\* are.  After a load that succeeds the recorded time is the modification
\* time of the model file, and the pair is the content of the two files.
C33_ReloadIffNullOrNewer ==
    [][(ChamadaDoCarregador /\ model_file.existe /\ scaler_file.existe) =>
          /\ ~RecargaNecessaria =>
                UNCHANGED <<ml_model_instance, scaler_instance,
                            timestamp_artefatos_carregados, n_cargas>>
          /\ (RecargaNecessaria /\ model_file.ok /\ scaler_file.ok) =>
                /\ n_cargas' = n_cargas + 1
                /\ ml_model_instance' = [ver |-> model_file.ver, carga |-> n_cargas + 1]
                /\ scaler_instance' = [ver |-> scaler_file.ver, carga |-> n_cargas + 1]
                /\ timestamp_artefatos_carregados' = Some(model_file.mtime)
          /\ (RecargaNecessaria /\ ~(model_file.ok /\ scaler_file.ok)) =>
                /\ ml_model_instance' = NoArtefato
                /\ scaler_instance' = NoArtefato
                /\ timestamp_artefatos_carregados' = None
                /\ UNCHANGED n_cargas
      ]_vars

\* A due check has found the model file rewritten after the initial load
\* and has loaded it; a later due check has found the same file and has
\* left the pair of the second load in place.
C33_Witness ==
    /\ pc = "agua530"
    /\ ciclos_counter >= 3
    /\ last_artefatos_check_time = current_loop_time
    /\ n_cargas = 2
    /\ ml_model_instance.carga = 2
    /\ model_file.mtime > 0
    /\ model_file.mtime < current_loop_time - MODEL_CHECK_INTERVAL_SECONDS
    /\ timestamp_artefatos_carregados = Some(model_file.mtime)
    /\ ml_model_instance.ver = model_file.ver

\* The two files are there and joblib.load can read them.
ArquivosCarregaveis ==
    /\ model_file.existe /\ model_file.ok
    /\ scaler_file.existe /\ scaler_file.ok

ParNulo == ml_model_instance = NoArtefato \/ scaler_instance = NoArtefato

\* The iterations a skipping hub needs, at most, for the check of the files
\* to be due again: MODEL_CHECK_INTERVAL_SECONDS in sleeps of
\* predicao_intervalo_segundos.
CiclosAteVerificacao ==
    (MODEL_CHECK_INTERVAL_SECONDS \div predicao_intervalo_segundos) + 1

\* C34: recovery from invalidation.  An iteration that starts with a null
\* pair before the check is due again makes no load and skips; the first
\* iteration that starts with the check due and the two files loadable loads
\* the pair and goes on to the sensors in the same iteration.  With a main
\* thread that keeps running, a hub in the loop with a null pair whose files
\* are loadable from then on gets a pair again (as long as the iterations
\* left to the run allow for the check to become due).
C34_Recovery ==
    /\ [][(pc = "tick" /\ pc' # "tick" /\ ParNulo) =>
             /\ ~VerificacaoDevida =>
                   (pc' = "dormir" /\ ParNulo' /\ UNCHANGED artVars)
             /\ (VerificacaoDevida /\ ArquivosCarregaveis) =>
                   /\ ~ParNulo'
                   /\ ml_model_instance' = [ver |-> model_file.ver,
                                            carga |-> n_cargas + 1]
                   /\ last_artefatos_check_time' = now
                   /\ pc' = "agua530"]_vars
    /\ []((/\ NoLoop /\ ParNulo
           /\ ciclos_counter + CiclosAteVerificacao <= MaxCyclesRecuperacao
           /\ []ArquivosCarregaveis)
             => <>(~ParNulo /\ pc = "agua530"))

\* The hub lost its pair in the loop, skipped an iteration whose check was
\* not yet due, and the iteration that found the files again goes on to the
\* sensors.
C34_Witness ==
    /\ pc = "agua530"
    /\ n_cargas = 2
    /\ ml_model_instance.carga = 2
    /\ last_artefatos_check_time = current_loop_time
    /\ ciclos_counter >= 4
    /\ model_file.mtime > 1
    /\ current_loop_time - model_file.mtime > predicao_intervalo_segundos

\* C35 as written: in every iteration at whose time the telemetry interval
\* has elapsed since the last snapshot, one snapshot of the counters of that
\* moment is inserted in StatusHub and the timer is set to the time of the
\* iteration, the iterations that skip for want of the pair included.
C35_SnapshotEveryDueTick ==
    [][(/\ pc \in {"tick", "telemetria"}
        /\ pc' = "dormir"
        /\ (current_loop_time' - last_status_log_time) > STATUS_LOG_INTERVAL_SECONDS)
          => /\ StatusHub' =
                    Inserir(StatusHub,
                            [uptime_segundos |-> current_loop_time' - start_time,
                             ciclos_decisao_executados |-> ciclos_counter',
                             mensagens_mqtt_recebidas |-> msgs_recebidas_counter',
                             alertas_sistema_enviados |-> alertas_enviados_counter'])
             /\ last_status_log_time' = current_loop_time']_vars

\* A step of a message handler (the network thread), a step of main().
PassoDeCallback == hpc' # hpc \/ msgs_recebidas_counter' # msgs_recebidas_counter
PassoDoLoop == pc' # pc

\* C36: the frame of the two threads.  A step of main() leaves the stored
\* payloads, their timestamps and the critical alert as they are; a step of
\* a handler leaves the artifact pair, the geo layers and the count of
\* alerts sent as they are; so each of these variables changes in the steps
\* of one thread only.  (The POIs are a local of main() set once at line
\* 467.)
C36_TwoDomainsFrame ==
    [][/\ PassoDoLoop => UNCHANGED <<waterVars, rainVars, critVars>>
       /\ PassoDeCallback =>
              UNCHANGED <<artVars, geoVars, alertas_enviados_counter>>
       /\ (<<waterVars, rainVars, critVars>>' # <<waterVars, rainVars, critVars>>)
              => (PassoDeCallback /\ ~PassoDoLoop)
       /\ (<<artVars, geoVars, alertas_enviados_counter>>'
              # <<artVars, geoVars, alertas_enviados_counter>>)
              => (PassoDoLoop /\ ~PassoDeCallback)]_vars

\* Both threads have written: the handlers a water reading, a rain reading
\* and the critical alert, main() the pair, the layers and a high command.
C36_Witness ==
    /\ pc = "telemetria"
    /\ ciclos_counter = 2
    /\ timestamp_last_water_data # None
    /\ esp32_critical_alert_is_active
    /\ Truthy(esp32_critical_alert_details)
    /\ critico_lido
    /\ n_cargas = 1
    /\ ml_model_instance # NoArtefato
    /\ edificios_gdf_metric
    /\ alertas_enviados_counter >= 1

\* The depth of the analysis under an active critical alert: detailed with
\* fresh rain of a category other than Nenhuma and N/A (lines 554, 572-573).
ProfundidadeComAlerta ==
    <<dados_chuva_atuais /\ categoria_chuva_display \notin {"Nenhuma", "N/A"}, "">>

\* C37 as written: one snapshot of the critical alert per iteration.  The
\* value of the flag that forces the high risk (line 550) is the value that
\* selects the depth of the analysis: an iteration that read the flag set
\* has the depth of an active alert, one that read it clear has the depth
\* the rain alone selects.
C37_OneSnapshotOfAlert ==
    (pc = "pois") =>
        /\ critico_lido =>
              /\ sistema_em_alto_risco_final
              /\ <<mostrar_analise_detalhada_pois, mensagem_pois_simplificada>>
                     = ProfundidadeComAlerta
        /\ ~critico_lido =>
              <<mostrar_analise_detalhada_pois, mensagem_pois_simplificada>>
                  = ProfundidadeSemAlerta

\* C38 as written: a CLEARED message cannot make an iteration fail.  When
\* the iteration that saw the alert active comes to read a field of the
\* details (line 551), the details are those of an ACTIVE message, and the
\* loop does not end on an exception.
C38_ClearedNeverFailsCycle ==
    /\ (pc = "critico551b") => HasGet(esp32_critical_alert_details)
    /\ pc \notin {"finally_erro", "loop_parado_erro", "fim_erro"}

\* C39: the critical alert latches.  The flag set by an ACTIVE message goes
\* back to false in the handling of a CLEARED message only, whatever else is
\* received and however much time passes; and every iteration that evaluates
\* the sensors with the flag set hands the publisher a high command, with
\* the water and rain readings stale or absent too.
C39_AlertLatches ==
    [][/\ (esp32_critical_alert_is_active /\ ~esp32_critical_alert_is_active')
             => (hpc = "idle" /\ hpc' = "critico_cleared"
                 /\ Upper(Get(hmsg', "status", "")) = "CLEARED")
       /\ (esp32_critical_alert_is_active /\ pc = "critico550" /\ pc' # pc)
             => critico_lido'
       /\ (esp32_critical_alert_is_active /\ pc = "pois" /\ pc' # pc)
             => sistema_em_alto_risco_final'
       /\ (esp32_critical_alert_is_active /\ pc = "publicar" /\ pc' # pc)
             => (comando'.chamado /\ comando'.risco)]_vars

\* The alert raised before the first iteration is still set in a second
\* iteration, the sensor timeout later: no water reading, the rain reading
\* stale, the command high.
C39_Witness ==
    /\ pc = "telemetria"
    /\ ciclos_counter = 2
    /\ current_loop_time > SENSOR_DATA_TIMEOUT_SECONDS
    /\ esp32_critical_alert_is_active
    /\ status_sensor_agua_obj = "Sem Comunicacao"
    /\ status_sensor_chuva_obj = "Desatualizado"
    /\ ~dados_chuva_atuais
    /\ comando.chamado /\ comando.risco

\* C40 as written: the stored payload of a sensor is None or a JSON object.
\* A message that decodes to JSON that is no object (a number, a string, a
\* list, null) replaces neither the stored payload nor its timestamp, so
\* the read of the category in the loop (lines 531 and 541) finds an object.
C40_StoredPayloadIsObject ==
    /\ latest_water_level_data = PyNone \/ HasGet(latest_water_level_data)
    /\ latest_rainfall_data = PyNone \/ HasGet(latest_rainfall_data)
    /\ (pc = "agua531") => HasGet(latest_water_level_data)
    /\ (pc = "chuva541") => HasGet(latest_rainfall_data)

====
